---- MODULE Spec2Model ----
(***************************************************************************)
(* Model of the paired-ratings server: the TMDB search / discover          *)
(* pagination pipeline (internal/handlers/handlers.go), the TMDB client    *)
(* it calls (internal/tmdb, the copy kept in internal/web/web.go) and the  *)
(* HTTP handlers that front them.                                          *)
(*                                                                         *)
(* Conventions                                                             *)
(*  - Go strings that are parsed, trimmed, case-folded or ordered are      *)
(*    sequences of one-character strings (<<"7", ".", "5">>); strings that *)
(*    are only compared with constants (media type, sort key, query) are   *)
(*    TLA+ strings.                                                        *)
(*  - float64 ratings are integers in hundredths (750 is 7.5).             *)
(*  - a nil pointer / absent value is the record [ok |-> FALSE, val |-> 0].*)
(***************************************************************************)
EXTENDS Integers, Sequences, FiniteSets, TLC

VARIABLES
    catalog,    \* what the metadata provider holds (stable between requests)
    library,    \* the shows table (internal/store)
    genres,     \* Handler.genres  (genreCache)
    countries,  \* Handler.countries (countryCache)
    languages,  \* Handler.languages (languageCache)
    now,        \* wall clock, in hours
    req,        \* the request being answered (raw query parameters)
    resp,       \* the HTTP response written for req
    calls,      \* provider calls made while answering req, in order
    stmts,      \* store statements run while answering req, in order
    searched,   \* what searchTMDB returned to getSearch for req
    refreshed,  \* per reference list: its last successful refresh, and
                \* whether a refresh has failed since (as of req's arrival)
    inserted,   \* the ids of the rows the handler of req has inserted
    fItems,     \* SpecFilter: the item list handed to applySearchFilters
    fOut,       \* SpecFilter: what applySearchFilters returned
    mu,         \* the sync.RWMutex of each reference-list cache
    goroutines, \* the requests being served at once: where each one is in
                \* its handler, and its local variables
    stored      \* per cache field: the refresh that assigned it last

vars == <<catalog, library, genres, countries, languages, now, req, resp,
          calls, stmts, searched, refreshed, inserted, fItems, fOut, mu,
          goroutines, stored>>

(***************************************************************************)
(* Characters and Go string functions                                      *)
(***************************************************************************)

\* The characters in use, in increasing byte (ASCII) order.
Ascii ==
    <<" ", "+", ",", "-", ".", "0", "1", "2", "3", "4", "5", "6", "7", "8",
      "9", "A", "B", "E", "F", "G", "N", "R", "S", "U", "a", "b", "c", "d",
      "e", "f", "g", "n", "r", "s", "u", "x", "|">>

Code(c) == CHOOSE i \in 1..Len(Ascii) : Ascii[i] = c

UpperLetters == <<"A", "B", "E", "F", "G", "N", "R", "S", "U">>
LowerLetters == <<"a", "b", "e", "f", "g", "n", "r", "s", "u">>

\* unicode.ToLower / unicode.ToUpper on one ASCII character
LowerChar(c) ==
    IF \E i \in 1..Len(UpperLetters) : UpperLetters[i] = c
    THEN LowerLetters[CHOOSE i \in 1..Len(UpperLetters) : UpperLetters[i] = c]
    ELSE c

UpperChar(c) ==
    IF \E i \in 1..Len(LowerLetters) : LowerLetters[i] = c
    THEN UpperLetters[CHOOSE i \in 1..Len(LowerLetters) : LowerLetters[i] = c]
    ELSE c

\* strings.ToLower, strings.ToUpper
ToLower(s) == [i \in 1..Len(s) |-> LowerChar(s[i])]
ToUpper(s) == [i \in 1..Len(s) |-> UpperChar(s[i])]

\* strings.EqualFold (ASCII)
EqualFold(s, t) == ToLower(s) = ToLower(t)

\* strings.TrimSpace
RECURSIVE TrimLeft(_)
TrimLeft(s) ==
    IF s # <<>> /\ Head(s) = " " THEN TrimLeft(Tail(s)) ELSE s

RECURSIVE TrimRight(_)
TrimRight(s) ==
    IF s # <<>> /\ s[Len(s)] = " "
    THEN TrimRight(SubSeq(s, 1, Len(s) - 1))
    ELSE s

TrimSpace(s) == TrimRight(TrimLeft(s))

\* strings.Compare: -1, 0 or 1 by byte-wise lexicographic order
RECURSIVE Compare(_, _)
Compare(s, t) ==
    IF s = <<>> /\ t = <<>> THEN 0
    ELSE IF s = <<>> THEN -1
    ELSE IF t = <<>> THEN 1
    ELSE IF Head(s) = Head(t) THEN Compare(Tail(s), Tail(t))
    ELSE IF Code(Head(s)) < Code(Head(t)) THEN -1
    ELSE 1

\* strings.Contains(s, c) for a one-character separator
Contains(s, c) == \E i \in 1..Len(s) : s[i] = c

\* strings.Split(s, sep) for a one-character separator
RECURSIVE SplitFrom(_, _, _)
SplitFrom(s, sep, cur) ==
    IF s = <<>> THEN <<cur>>
    ELSE IF Head(s) = sep THEN <<cur>> \o SplitFrom(Tail(s), sep, <<>>)
    ELSE SplitFrom(Tail(s), sep, Append(cur, Head(s)))

Split(s, sep) == SplitFrom(s, sep, <<>>)

\* strings.Join(parts, sep)
RECURSIVE Join(_, _)
Join(parts, sep) ==
    IF parts = <<>> THEN <<>>
    ELSE IF Len(parts) = 1 THEN parts[1]
    ELSE parts[1] \o <<sep>> \o Join(Tail(parts), sep)

Digits == <<"0", "1", "2", "3", "4", "5", "6", "7", "8", "9">>
IsDigit(c) == \E i \in 1..10 : Digits[i] = c
DigitVal(c) == (CHOOSE i \in 1..10 : Digits[i] = c) - 1

RECURSIVE DigitsVal(_, _)
DigitsVal(s, acc) ==
    IF s = <<>> THEN acc ELSE DigitsVal(Tail(s), 10 * acc + DigitVal(Head(s)))

Nil == [ok |-> FALSE, val |-> 0]
Some(v) == [ok |-> TRUE, val |-> v]

\* strconv.Atoi: an optional sign followed by at least one decimal digit and
\* nothing else; anything else is an error (ok = FALSE).
Atoi(s) ==
    LET signed == s # <<>> /\ Head(s) \in {"+", "-"}
        body   == IF signed THEN Tail(s) ELSE s
    IN  IF body = <<>> \/ \E i \in 1..Len(body) : ~IsDigit(body[i])
        THEN Nil
        ELSE IF signed /\ Head(s) = "-"
             THEN Some(0 - DigitsVal(body, 0))
             ELSE Some(DigitsVal(body, 0))

\* strconv.Itoa
RECURSIVE ItoaNat(_)
ItoaNat(n) ==
    IF n < 10 THEN <<Digits[n + 1]>>
    ELSE Append(ItoaNat(n \div 10), Digits[(n % 10) + 1])

Itoa(n) == IF n < 0 THEN <<"-">> \o ItoaNat(0 - n) ELSE ItoaNat(n)

\* strconv.ParseFloat(s, 64) on plain decimal literals with at most two
\* fractional digits ([sign] digits [. digits]); the value is in hundredths.
\* Any other text in the model's inputs is not a number and is an error.
ParseFloat(s) ==
    LET signed == s # <<>> /\ Head(s) \in {"+", "-"}
        body   == IF signed THEN Tail(s) ELSE s
        parts  == Split(body, ".")
        ip     == parts[1]
        fp     == IF Len(parts) = 2 THEN parts[2] ELSE <<>>
        allDig(x) == \A i \in 1..Len(x) : IsDigit(x[i])
        frac   == IF Len(fp) = 0 THEN 0
                  ELSE IF Len(fp) = 1 THEN 10 * DigitVal(fp[1])
                  ELSE DigitsVal(fp, 0)
        mag    == 100 * DigitsVal(ip, 0) + frac
    IN  IF Len(parts) > 2 \/ Len(fp) > 2 \/ ~allDig(ip) \/ ~allDig(fp)
           \/ (ip = <<>> /\ fp = <<>>)
        THEN Nil
        ELSE IF signed /\ Head(s) = "-" THEN Some(0 - mag) ELSE Some(mag)

\* tmdb.yearFromDate: the first four characters of a date, "" if shorter
yearFromDate(date) == IF Len(date) < 4 THEN <<>> ELSE SubSeq(date, 1, 4)

\* tmdb.ParseYear: nil for an empty or non-numeric year
ParseYear(year) ==
    LET y == TrimSpace(year)
    IN  IF y = <<>> THEN Nil ELSE Atoi(y)

Range(s) == {s[i] : i \in 1..Len(s)}

Max(a, b) == IF a > b THEN a ELSE b
Min(a, b) == IF a < b THEN a ELSE b

(***************************************************************************)
(* Search request parsing (handlers.go)                                    *)
(***************************************************************************)

\* parseSearchRequest: every parameter is trimmed; page is kept only when it
\* parses as an integer above zero, otherwise pb.SearchRequest.Page stays 0.
\* q, media_type and sort are TLA+ strings and carry no surrounding space.
parseSearchRequest(r) ==
    LET val    == TrimSpace(r.page)
        parsed == Atoi(val)
    IN  [Q                |-> r.q,
         MediaType        |-> r.media_type,
         YearFrom         |-> TrimSpace(r.year_from),
         YearTo           |-> TrimSpace(r.year_to),
         MinRating        |-> TrimSpace(r.min_rating),
         MinVotes         |-> TrimSpace(r.min_votes),
         Sort             |-> r.sort,
         Genres           |-> TrimSpace(r.genres),
         OriginCountry    |-> TrimSpace(r.origin_country),
         OriginalLanguage |-> TrimSpace(r.original_language),
         Page             |-> IF val # <<>> /\ parsed.ok /\ parsed.val > 0
                              THEN parsed.val ELSE 0]

\* the loop of parseGenreFilter that keeps the parts that are integers > 0
RECURSIVE genreIDsOf(_)
genreIDsOf(parts) ==
    IF parts = <<>> THEN <<>>
    ELSE LET part == TrimSpace(Head(parts))
             v    == Atoi(part)
         IN  IF part # <<>> /\ v.ok /\ v.val > 0
             THEN <<v.val>> \o genreIDsOf(Tail(parts))
             ELSE genreIDsOf(Tail(parts))

\* parseGenreFilter: (ids, mode, normalised query); "|" anywhere selects OR
parseGenreFilter(raw0) ==
    LET raw       == TrimSpace(raw0)
        isOr      == Contains(raw, "|")
        mode      == IF isOr THEN "or" ELSE "and"
        separator == IF isOr THEN "|" ELSE ","
        ids       == genreIDsOf(Split(raw, separator))
    IN  IF raw = <<>> \/ ids = <<>>
        THEN [ids |-> <<>>, mode |-> "and", query |-> <<>>]
        ELSE [ids   |-> ids,
              mode  |-> mode,
              query |-> Join([i \in 1..Len(ids) |-> Itoa(ids[i])], separator)]

\* searchFiltersFromRequest
searchFiltersFromRequest(pb) ==
    LET yf == Atoi(pb.YearFrom)
        yt == Atoi(pb.YearTo)
        mr == ParseFloat(pb.MinRating)
        mv == Atoi(pb.MinVotes)
        g  == parseGenreFilter(pb.Genres)
    IN  [MediaType        |-> IF pb.MediaType \in {"movie", "tv"}
                              THEN pb.MediaType ELSE "all",
         YearFrom         |-> IF pb.YearFrom # <<>> /\ yf.ok THEN yf ELSE Nil,
         YearTo           |-> IF pb.YearTo # <<>> /\ yt.ok THEN yt ELSE Nil,
         MinRating        |-> IF pb.MinRating # <<>> /\ mr.ok /\ mr.val > 0
                              THEN mr ELSE Nil,
         MinVotes         |-> IF pb.MinVotes # <<>> /\ mv.ok /\ mv.val > 0
                              THEN mv ELSE Nil,
         Sort             |-> IF pb.Sort \in {"rating", "year", "title", "votes"}
                              THEN pb.Sort ELSE "relevance",
         Page             |-> IF pb.Page > 0 THEN pb.Page ELSE 1,
         GenreIDs         |-> g.ids,
         GenreMode        |-> g.mode,
         GenreRaw         |-> g.query,
         OriginCountry    |-> ToUpper(pb.OriginCountry),
         OriginalLanguage |-> ToLower(pb.OriginalLanguage)]

\* searchFilters.isEmpty
isEmpty(f) ==
    /\ f.MediaType = "all"
    /\ ~f.YearFrom.ok
    /\ ~f.YearTo.ok
    /\ ~f.MinRating.ok
    /\ ~f.MinVotes.ok
    /\ Len(f.GenreIDs) = 0
    /\ f.OriginCountry = <<>>
    /\ f.OriginalLanguage = <<>>

(***************************************************************************)
(* Attribute filter (handlers.go)                                          *)
(***************************************************************************)

matchesGenres_swapped(itemIDs, filterIDs, mode) ==
    LET itemSet == {itemIDs[i] : i \in 1..Len(itemIDs)}
    IN  IF Len(filterIDs) = 0 THEN TRUE
        ELSE IF Len(itemIDs) = 0 THEN FALSE
        ELSE IF mode # "or"
             THEN \E i \in 1..Len(filterIDs) : filterIDs[i] \in itemSet
             ELSE \A i \in 1..Len(filterIDs) : filterIDs[i] \in itemSet

\* matchesGenres: OR mode returns at the first requested id found in the
\* item's set, AND mode returns false at the first one missing.
matchesGenres(itemIDs, filterIDs, mode) ==
    LET itemSet == {itemIDs[i] : i \in 1..Len(itemIDs)}
    IN  IF Len(filterIDs) = 0 THEN TRUE
        ELSE IF Len(itemIDs) = 0 THEN FALSE
        ELSE IF mode = "or"
             THEN \E i \in 1..Len(filterIDs) : filterIDs[i] \in itemSet
             ELSE \A i \in 1..Len(filterIDs) : filterIDs[i] \in itemSet

\* the body of applySearchFilters' loop: TRUE when no `continue` is taken
keepItem_exclusive(item, filters) ==
    LET yearPtr == ParseYear(item.Year)
    IN  /\ ~(filters.MediaType # "all" /\ item.MediaType # filters.MediaType)
        /\ ~(filters.MinRating.ok /\ item.VoteAverage <= filters.MinRating.val)
        /\ ~(filters.MinVotes.ok /\ item.VoteCount < filters.MinVotes.val)
        /\ filters.OriginalLanguage # <<>> =>
              /\ item.OriginalLanguage # <<>>
              /\ EqualFold(item.OriginalLanguage, filters.OriginalLanguage)
        /\ filters.OriginCountry # <<>> =>
              /\ Len(item.OriginCountry) # 0
              /\ \E i \in 1..Len(item.OriginCountry) :
                    EqualFold(item.OriginCountry[i], filters.OriginCountry)
        /\ Len(filters.GenreIDs) > 0 =>
              matchesGenres(item.GenreIDs, filters.GenreIDs, filters.GenreMode)
        /\ (filters.YearFrom.ok \/ filters.YearTo.ok) =>
              /\ yearPtr.ok
              /\ ~(filters.YearFrom.ok /\ yearPtr.val < filters.YearFrom.val)
              /\ ~(filters.YearTo.ok /\ yearPtr.val > filters.YearTo.val)

keepItem(item, filters) ==
    LET yearPtr == ParseYear(item.Year)
    IN  /\ ~(filters.MediaType # "all" /\ item.MediaType # filters.MediaType)
        /\ ~(filters.MinRating.ok /\ item.VoteAverage < filters.MinRating.val)
        /\ ~(filters.MinVotes.ok /\ item.VoteCount < filters.MinVotes.val)
        /\ filters.OriginalLanguage # <<>> =>
              /\ item.OriginalLanguage # <<>>
              /\ EqualFold(item.OriginalLanguage, filters.OriginalLanguage)
        /\ filters.OriginCountry # <<>> =>
              /\ Len(item.OriginCountry) # 0
              /\ \E i \in 1..Len(item.OriginCountry) :
                    EqualFold(item.OriginCountry[i], filters.OriginCountry)
        /\ Len(filters.GenreIDs) > 0 =>
              matchesGenres(item.GenreIDs, filters.GenreIDs, filters.GenreMode)
        /\ (filters.YearFrom.ok \/ filters.YearTo.ok) =>
              /\ yearPtr.ok
              /\ ~(filters.YearFrom.ok /\ yearPtr.val < filters.YearFrom.val)
              /\ ~(filters.YearTo.ok /\ yearPtr.val > filters.YearTo.val)

\* applySearchFilters: the survivors, appended to `out` in input order
RECURSIVE applySearchFilters(_, _)
applySearchFilters(items, filters) ==
    IF Len(items) = 0 THEN items
    ELSE LET rest == applySearchFilters(Tail(items), filters)
         IN  IF keepItem(Head(items), filters)
             THEN <<Head(items)>> \o rest
             ELSE rest

(***************************************************************************)
(* The metadata provider's content                                         *)
(***************************************************************************)

PoolSize == 12      \* items the attribute filter is exercised on
MaxItems == 3       \* longest list handed to applySearchFilters on its own

Dates ==
    << <<"1", "9", "9", "9", "-", "0", "3">>,
       <<"2", "0", "0", "5", "-", "1", "1">>,
       <<>>,
       <<"a", "b", "c", "d", "-", "e", "f">>,
       <<"9", "9">>,
       <<" ", "1", "9", "9", "-", "0">>,
       <<"2", "0", "1", "0", "-", "0", "1">> >>

GenreLists == << <<>>, <<1>>, <<1, 2>>, <<2, 3>>, <<3>> >>

CountryLists ==
    << <<>>,
       << <<"U", "S">> >>,
       << <<"G", "B">>, <<"u", "s">> >>,
       << <<"F", "R">> >> >>

LanguageCodes == << <<"e", "n">>, <<"E", "N">>, <<>>, <<"f", "r">> >>

TitleLetters == <<"A", "a", "B", "b">>

\* One element of searchResponse.Results as the provider sends it for the
\* i-th title of a media kind: a movie carries title and release_date, a tv
\* show name and first_air_date.
RawItem(kind, i) ==
    LET label == <<TitleLetters[(i % 4) + 1], TitleLetters[((i \div 4) % 4) + 1]>>
        date  == Dates[(i % 7) + 1]
    IN  [id                |-> i,
         media_type        |-> "",
         title             |-> IF kind = "movie" THEN label ELSE <<>>,
         name              |-> IF kind = "tv" THEN label ELSE <<>>,
         release_date      |-> IF kind = "movie" THEN date ELSE <<>>,
         first_air_date    |-> IF kind = "tv" THEN date ELSE <<>>,
         vote_average      |-> 600 + 10 * ((i * 7) % 31),
         vote_count        |-> 50 * ((i * 3) % 5),
         genre_ids         |-> GenreLists[(i % 5) + 1],
         origin_country    |-> CountryLists[(i % 4) + 1],
         original_language |-> LanguageCodes[(i % 3) + 1]]

\* the loop body of fetchSearch: one SearchResult per raw result whose media
\* type (after the override) is movie or tv; others are skipped
RECURSIVE fetchSearchResults(_, _)
fetchSearchResults(results, mediaTypeOverride) ==
    IF results = <<>> THEN <<>>
    ELSE LET r         == Head(results)
             mediaType == IF mediaTypeOverride # "" THEN mediaTypeOverride
                          ELSE r.media_type
             res == [ID               |-> r.id,
                     MediaType        |-> mediaType,
                     Title            |-> IF mediaType = "movie" THEN r.title
                                          ELSE r.name,
                     Year             |-> IF mediaType = "movie"
                                          THEN yearFromDate(r.release_date)
                                          ELSE yearFromDate(r.first_air_date),
                     VoteAverage      |-> r.vote_average,
                     VoteCount        |-> r.vote_count,
                     GenreIDs         |-> r.genre_ids,
                     OriginCountry    |-> r.origin_country,
                     OriginalLanguage |-> r.original_language]
             rest == fetchSearchResults(Tail(results), mediaTypeOverride)
         IN  IF mediaType \notin {"movie", "tv"} THEN rest
             ELSE <<res>> \o rest

(***************************************************************************)
(* Sorting                                                                 *)
(***************************************************************************)

\* slices.SortFunc, as the insertion sort Go runs on up to 12 elements.
\* less[i, j] tells whether the comparator puts items[i] before items[j].
\* Each element goes behind the elements it does not sort before, so
\* elements the comparator does not separate keep their input order.  On
\* longer lists Go may order such elements differently.
SortFunc(items, less) ==
    LET n == Len(items)
        sorted[k \in 0..n] ==
            IF k = 0 THEN <<>>
            ELSE LET prev == sorted[k - 1]
                     pos  == Cardinality({j \in 1..(k - 1) : ~less[k, prev[j]]})
                 IN  SubSeq(prev, 1, pos) \o <<k>> \o SubSeq(prev, pos + 1, k - 1)
        order == sorted[n]
    IN  [k \in 1..n |-> items[order[k]]]

\* cmp.Compare on integers
CmpInt(a, b) == IF a < b THEN -1 ELSE IF a > b THEN 1 ELSE 0

YearOrZero(item) ==
    LET val == ParseYear(item.Year) IN IF val.ok THEN val.val ELSE 0

\* the comparators of applySearchSort
cmpRating(a, b) ==
    IF a.VoteAverage # b.VoteAverage THEN CmpInt(b.VoteAverage, a.VoteAverage)
    ELSE IF a.VoteCount # b.VoteCount THEN CmpInt(b.VoteCount, a.VoteCount)
    ELSE Compare(a.Title, b.Title)

cmpVotes(a, b) ==
    IF a.VoteCount # b.VoteCount THEN CmpInt(b.VoteCount, a.VoteCount)
    ELSE IF a.VoteAverage # b.VoteAverage
         THEN CmpInt(b.VoteAverage, a.VoteAverage)
    ELSE Compare(a.Title, b.Title)

cmpYear(a, b) ==
    IF YearOrZero(a) # YearOrZero(b) THEN CmpInt(YearOrZero(b), YearOrZero(a))
    ELSE Compare(a.Title, b.Title)

\* the title comparator answering "before" for every pair that is not "after"
cmpTitle_neverEqual(a, b) ==
    IF Compare(ToLower(a.Title), ToLower(b.Title)) > 0 THEN 1 ELSE -1

cmpTitle(a, b) == Compare(ToLower(a.Title), ToLower(b.Title))

\* applySearchSort
applySearchSort(items, sort, keepRelevance) ==
    LET idx        == 1..Len(items)
        lessRating == [i \in idx, j \in idx |-> cmpRating(items[i], items[j]) < 0]
        lessVotes  == [i \in idx, j \in idx |-> cmpVotes(items[i], items[j]) < 0]
        lessYear   == [i \in idx, j \in idx |-> cmpYear(items[i], items[j]) < 0]
        lessTitle  == [i \in idx, j \in idx |-> cmpTitle(items[i], items[j]) < 0]
    IN  IF Len(items) < 2 THEN items
        ELSE IF sort = "rating" THEN SortFunc(items, lessRating)
        ELSE IF sort = "votes" THEN SortFunc(items, lessVotes)
        ELSE IF sort = "year" THEN SortFunc(items, lessYear)
        ELSE IF sort = "title" THEN SortFunc(items, lessTitle)
        ELSE IF keepRelevance THEN items
        ELSE SortFunc(items, lessVotes)

\* tmdbSort: the provider sort key for an application sort key
tmdbSort(sort, mediaType) ==
    IF sort = "rating" THEN "vote_average.desc"
    ELSE IF sort = "votes" THEN "vote_count.desc"
    ELSE IF sort = "year"
         THEN (IF mediaType = "tv" THEN "first_air_date.desc"
               ELSE "primary_release_date.desc")
    ELSE IF sort = "title"
         THEN (IF mediaType = "tv" THEN "original_name.asc"
               ELSE "original_title.asc")
    ELSE "popularity.desc"

\* paginateSearchResults
paginateSearchResults(items, offset0, limit) ==
    LET offset == IF offset0 < 0 THEN 0 ELSE offset0
        end    == Min(offset + limit, Len(items))
    IN  IF offset >= Len(items) THEN <<>>
        ELSE SubSeq(items, offset + 1, end)

(***************************************************************************)
(* The metadata provider's endpoints (external service)                    *)
(***************************************************************************)

perPage == 20          \* application page size
tmdbPageSize == 20     \* provider page size
maxTotalPages == 500   \* fetchSearch caps total_pages

CeilDiv(a, b) == (a + b - 1) \div b

\* the titles of one media kind, in the provider's relevance order
Universe(cat, kind) == [i \in 1..cat[kind] |-> RawItem(kind, i)]

ProviderPayload(items, page) ==
    [results       |-> SubSeq(items, (page - 1) * tmdbPageSize + 1,
                              Min(page * tmdbPageSize, Len(items))),
     page          |-> page,
     total_pages   |-> CeilDiv(Len(items), tmdbPageSize),
     total_results |-> Len(items)]

\* GET /search/{kind}: every title of the kind matches the query
ProviderSearch(cat, kind, page) == ProviderPayload(Universe(cat, kind), page)

RawDate(r) == IF r.release_date # <<>> THEN r.release_date ELSE r.first_air_date
RawLabel(r) == IF r.title # <<>> THEN r.title ELSE r.name

\* GET /discover/{kind}: the provider filters by the query values, orders by
\* sort_by (ties in relevance order) and pages the outcome
ProviderDiscover(cat, kind, values) ==
    LET isOr      == Contains(values.with_genres, "|")
        wanted    == genreIDsOf(Split(values.with_genres,
                                      IF isOr THEN "|" ELSE ","))
        year(r)   == ParseYear(yearFromDate(RawDate(r)))
        Match(r)  ==
            /\ values.vote_average_gte.ok =>
                  r.vote_average >= values.vote_average_gte.val
            /\ values.vote_count_gte.ok =>
                  r.vote_count >= values.vote_count_gte.val
            /\ wanted # <<>> =>
                  IF isOr
                  THEN Range(wanted) \cap Range(r.genre_ids) # {}
                  ELSE Range(wanted) \subseteq Range(r.genre_ids)
            /\ values.with_origin_country # <<>> =>
                  \E c \in Range(r.origin_country) :
                      EqualFold(c, values.with_origin_country)
            /\ values.with_original_language # <<>> =>
                  EqualFold(r.original_language, values.with_original_language)
            /\ (values.date_gte.ok \/ values.date_lte.ok) => year(r).ok
            /\ values.date_gte.ok => year(r).val >= values.date_gte.val
            /\ values.date_lte.ok => year(r).val <= values.date_lte.val
        Before(a, b) ==
            IF values.sort_by = "vote_average.desc"
            THEN a.vote_average > b.vote_average
            ELSE IF values.sort_by = "vote_count.desc"
            THEN a.vote_count > b.vote_count
            ELSE IF values.sort_by \in {"primary_release_date.desc",
                                        "first_air_date.desc"}
            THEN Compare(RawDate(a), RawDate(b)) > 0
            ELSE IF values.sort_by \in {"original_title.asc",
                                        "original_name.asc"}
            THEN Compare(RawLabel(a), RawLabel(b)) < 0
            ELSE FALSE
        matched   == SelectSeq(Universe(cat, kind), Match)
        before    == [i \in 1..Len(matched), j \in 1..Len(matched) |->
                         Before(matched[i], matched[j])]
    IN  ProviderPayload(SortFunc(matched, before), values.page)

(***************************************************************************)
(* TMDB client (internal/tmdb)                                             *)
(***************************************************************************)

EmptySearchPage ==
    [Results |-> <<>>, Page |-> 0, TotalPages |-> 0, TotalResults |-> 0]

\* one entry of the record of provider calls
ProviderCall(api, kind, page, ok) ==
    [api |-> api, kind |-> kind, page |-> page, ok |-> ok]

\* the next provider call of this request fails when it is the fault's call
Fails(log, fault) == Len(log) + 1 = fault.call

\* fetchSearch without the cap on total_pages
fetchSearch_uncapped(payload, mediaTypeOverride, fails) ==
    IF fails THEN [err |-> TRUE, data |-> EmptySearchPage]
    ELSE [err  |-> FALSE,
          data |-> [Results      |-> fetchSearchResults(payload.results,
                                                        mediaTypeOverride),
                    Page         |-> payload.page,
                    TotalPages   |-> payload.total_pages,
                    TotalResults |-> payload.total_results]]

\* fetchSearch: doJSON's error is returned as is; otherwise the results are
\* converted and total_pages is capped
fetchSearch(payload, mediaTypeOverride, fails) ==
    IF fails THEN [err |-> TRUE, data |-> EmptySearchPage]
    ELSE [err  |-> FALSE,
          data |-> [Results      |-> fetchSearchResults(payload.results,
                                                        mediaTypeOverride),
                    Page         |-> payload.page,
                    TotalPages   |-> Min(payload.total_pages, maxTotalPages),
                    TotalResults |-> payload.total_results]]

\* what SearchPage and DiscoverPage return for the outcome r of fetchSearch,
\* and the record of the provider call that was made
Fetched(r, log, api, mediaType, page) ==
    [err  |-> r.err,
     data |-> r.data,
     log  |-> Append(log, ProviderCall(api, mediaType, page, ~r.err))]

\* Client.SearchPage
SearchPage(env, mediaType, page0, log) ==
    LET page == IF page0 < 1 THEN 1 ELSE page0
    IN  IF env.query = ""
        THEN [err |-> FALSE, data |-> EmptySearchPage, log |-> log]
        ELSE IF mediaType \notin {"movie", "tv"}
        THEN [err |-> TRUE, data |-> EmptySearchPage, log |-> log]
        ELSE Fetched(fetchSearch(ProviderSearch(env.cat, mediaType, page),
                                 mediaType, Fails(log, env.fault)),
                     log, "search", mediaType, page)

\* strconv.FormatFloat(x, 'f', 1, 64) read back as a number: x (hundredths)
\* rounded to a tenth, a tie going to the even tenth.  Exact for the values
\* whose hundredths are no tie or are binary fractions (.25, .75).
FormatTenths(x) ==
    LET q == x \div 10
        r == x % 10
    IN  IF r < 5 THEN 10 * q
        ELSE IF r > 5 THEN 10 * (q + 1)
        ELSE IF q % 2 = 0 THEN 10 * q ELSE 10 * (q + 1)

\* the query values DiscoverPage sends
DiscoverValues(filters, page) ==
    [sort_by                |-> IF filters.Sort = "" THEN "popularity.desc"
                                ELSE filters.Sort,
     page                   |-> page,
     vote_average_gte       |-> IF filters.MinRating.ok
                                THEN Some(FormatTenths(filters.MinRating.val))
                                ELSE Nil,
     vote_count_gte         |-> IF filters.MinVotes.ok /\ filters.MinVotes.val > 0
                                THEN filters.MinVotes ELSE Nil,
     with_genres            |-> TrimSpace(filters.Genres),
     with_origin_country    |-> TrimSpace(filters.OriginCountry),
     with_original_language |-> TrimSpace(filters.OriginalLanguage),
     date_gte               |-> filters.YearFrom,
     date_lte               |-> filters.YearTo]

\* Client.DiscoverPage
DiscoverPage(env, mediaType, filters, page0, log) ==
    LET page == IF page0 < 1 THEN 1 ELSE page0
    IN  IF mediaType \notin {"movie", "tv"}
        THEN [err |-> TRUE, data |-> EmptySearchPage, log |-> log]
        ELSE Fetched(fetchSearch(ProviderDiscover(env.cat, mediaType,
                                                  DiscoverValues(filters, page)),
                                 mediaType, Fails(log, env.fault)),
                     log, "discover", mediaType, page)

(***************************************************************************)
(* Search pipeline (handlers.go)                                           *)
(***************************************************************************)

RECURSIVE pagingLoop(_, _, _, _, _)
\* the loop turn that goes on to one page behind the provider's last
pagingStep_pastLast(env, filters, need, applyFilters, st, got) ==
    LET pageData == got.data
        added    == IF applyFilters
                    THEN applySearchFilters(pageData.Results, filters)
                    ELSE pageData.Results
        next     == [tmdbPage     |-> st.tmdbPage,
                     collected    |-> st.collected \o added,
                     totalResults |-> IF pageData.TotalResults > 0
                                      THEN pageData.TotalResults
                                      ELSE st.totalResults,
                     totalPages   |-> IF pageData.TotalPages > 0
                                      THEN pageData.TotalPages
                                      ELSE st.totalPages,
                     log          |-> got.log]
    IN  IF got.err
        THEN [err |-> TRUE, exhausted |-> FALSE, collected |-> st.collected,
              totalResults |-> st.totalResults,
              totalPages |-> st.totalPages, log |-> got.log]
        ELSE IF st.tmdbPage > pageData.TotalPages \/ pageData.TotalPages = 0
        THEN [err |-> FALSE, exhausted |-> TRUE, collected |-> next.collected,
              totalResults |-> next.totalResults,
              totalPages |-> next.totalPages, log |-> next.log]
        ELSE pagingLoop(env, filters, need, applyFilters,
                        [next EXCEPT !.tmdbPage = st.tmdbPage + 1])

\* One turn of the accumulation loop of searchWithFilterPaging after its
\* fetch returned got: the state the loop goes on with, or what it ends with.
pagingStep(env, filters, need, applyFilters, st, got) ==
    LET pageData == got.data
        added    == IF applyFilters
                    THEN applySearchFilters(pageData.Results, filters)
                    ELSE pageData.Results
        next     == [tmdbPage     |-> st.tmdbPage,
                     collected    |-> st.collected \o added,
                     totalResults |-> IF pageData.TotalResults > 0
                                      THEN pageData.TotalResults
                                      ELSE st.totalResults,
                     totalPages   |-> IF pageData.TotalPages > 0
                                      THEN pageData.TotalPages
                                      ELSE st.totalPages,
                     log          |-> got.log]
    IN  IF got.err
        THEN [err |-> TRUE, exhausted |-> FALSE, collected |-> st.collected,
              totalResults |-> st.totalResults,
              totalPages |-> st.totalPages, log |-> got.log]
        ELSE IF st.tmdbPage >= pageData.TotalPages \/ pageData.TotalPages = 0
        THEN [err |-> FALSE, exhausted |-> TRUE, collected |-> next.collected,
              totalResults |-> next.totalResults,
              totalPages |-> next.totalPages, log |-> next.log]
        ELSE pagingLoop(env, filters, need, applyFilters,
                        [next EXCEPT !.tmdbPage = st.tmdbPage + 1])

\* The accumulation loop of searchWithFilterPaging.  st carries tmdbPage,
\* collected, totalResults, totalPages and the provider calls made so far.
pagingLoop(env, filters, need, applyFilters, st) ==
    IF ~(Len(st.collected) < need)
    THEN [err |-> FALSE, exhausted |-> FALSE, collected |-> st.collected,
          totalResults |-> st.totalResults, totalPages |-> st.totalPages,
          log |-> st.log]
    ELSE pagingStep(env, filters, need, applyFilters, st,
                    SearchPage(env, env.mediaType, st.tmdbPage, st.log))

\* the end of searchWithFilterPaging handing back what the loop had collected
\* when a fetch failed
pagedResult_partial(page, sort, perPage_, offset, applyFilters, loop) ==
    LET collected == IF applyFilters /\ sort # "relevance"
                     THEN applySearchSort(loop.collected, sort, FALSE)
                     ELSE loop.collected
        paged     == paginateSearchResults(collected, offset, perPage_)
        filteredTotal ==
            IF page > 1
            THEN Max(Len(collected), (page - 1) * perPage_ + Len(paged))
            ELSE Len(collected)
        totalResults == IF loop.exhausted THEN filteredTotal
                        ELSE loop.totalResults
        totalPages   == IF loop.exhausted
                        THEN (IF totalResults > 0
                              THEN CeilDiv(totalResults, perPage_) ELSE 1)
                        ELSE loop.totalPages
    IN  IF loop.err
        THEN [err  |-> TRUE,
              data |-> [Results      |-> loop.collected,
                        Page         |-> page,
                        TotalPages   |-> loop.totalPages,
                        TotalResults |-> loop.totalResults],
              log |-> loop.log, exhausted |-> FALSE, collected |-> <<>>]
        ELSE [err  |-> FALSE,
              data |-> [Results      |-> paged,
                        Page         |-> page,
                        TotalPages   |-> totalPages,
                        TotalResults |-> totalResults],
              log  |-> loop.log,
              exhausted |-> loop.exhausted,
              collected |-> collected]

\* the end of searchWithFilterPaging sorting the window instead of the
\* accumulator
pagedResult_sliceFirst(page, sort, perPage_, offset, applyFilters, loop) ==
    LET collected == loop.collected
        slice     == paginateSearchResults(collected, offset, perPage_)
        paged     == IF applyFilters /\ sort # "relevance"
                     THEN SubSeq(applySearchSort(slice, sort, FALSE),
                                 1, Len(slice))
                     ELSE slice
        filteredTotal ==
            IF page > 1
            THEN Max(Len(collected), (page - 1) * perPage_ + Len(paged))
            ELSE Len(collected)
        totalResults == IF loop.exhausted THEN filteredTotal
                        ELSE loop.totalResults
        totalPages   == IF loop.exhausted
                        THEN (IF totalResults > 0
                              THEN CeilDiv(totalResults, perPage_) ELSE 1)
                        ELSE loop.totalPages
    IN  IF loop.err
        THEN [err |-> TRUE, data |-> EmptySearchPage, log |-> loop.log,
              exhausted |-> FALSE, collected |-> <<>>]
        ELSE [err  |-> FALSE,
              data |-> [Results      |-> paged,
                        Page         |-> page,
                        TotalPages   |-> totalPages,
                        TotalResults |-> totalResults],
              log  |-> loop.log,
              exhausted |-> loop.exhausted,
              collected |-> collected]

\* The end of searchWithFilterPaging, after its loop returned loop: the error,
\* or the sorted accumulator windowed and the totals.
pagedResult(page, sort, perPage_, offset, applyFilters, loop) ==
    LET collected == IF applyFilters /\ sort # "relevance"
                     THEN applySearchSort(loop.collected, sort, FALSE)
                     ELSE loop.collected
        paged     == paginateSearchResults(collected, offset, perPage_)
        filteredTotal ==
            IF page > 1
            THEN Max(Len(collected), (page - 1) * perPage_ + Len(paged))
            ELSE Len(collected)
        totalResults == IF loop.exhausted THEN filteredTotal
                        ELSE loop.totalResults
        totalPages   == IF loop.exhausted
                        THEN (IF totalResults > 0
                              THEN CeilDiv(totalResults, perPage_) ELSE 1)
                        ELSE loop.totalPages
    IN  IF loop.err
        THEN [err |-> TRUE, data |-> EmptySearchPage, log |-> loop.log,
              exhausted |-> FALSE, collected |-> <<>>]
        ELSE [err  |-> FALSE,
              data |-> [Results      |-> paged,
                        Page         |-> page,
                        TotalPages   |-> totalPages,
                        TotalResults |-> totalResults],
              log  |-> loop.log,
              exhausted |-> loop.exhausted,
              collected |-> collected]

\* searchWithFilterPaging; fetch is Client.SearchPage for env's query and
\* media type
searchWithFilterPaging(env, filters0, perPage_, remotePageSize, startFromFirst, applyFilters, log) ==
    LET page     == IF filters0.Page < 1 THEN 1 ELSE filters0.Page
        filters  == [filters0 EXCEPT !.Page = page]
        offset   == IF startFromFirst THEN (page - 1) * perPage_
                    ELSE ((page - 1) * perPage_) % remotePageSize
        tmdbPage == IF startFromFirst THEN 1
                    ELSE ((page - 1) * perPage_) \div remotePageSize + 1
    IN  pagedResult(page, filters.Sort, perPage_, offset, applyFilters,
                    pagingLoop(env, filters, offset + perPage_, applyFilters,
                               [tmdbPage |-> tmdbPage, collected |-> <<>>,
                                totalResults |-> 0, totalPages |-> 1,
                                log |-> log]))

\* what the branches of searchTMDB that make no paging loop report about it
NoPaging(r) ==
    [err |-> r.err, data |-> r.data, log |-> r.log, exhausted |-> FALSE,
     collected |-> <<>>]

\* searchTMDB, case "movie", "tv", after its discover call returned got
discoverOneFound(filters, got) ==
    IF got.err
    THEN NoPaging([err |-> TRUE, data |-> EmptySearchPage, log |-> got.log])
    ELSE NoPaging([err  |-> FALSE,
                   data |-> [Results      |-> got.data.Results,
                             Page         |-> filters.Page,
                             TotalPages   |-> got.data.TotalPages,
                             TotalResults |-> got.data.TotalResults],
                   log  |-> got.log])

\* searchTMDB, case "movie", "tv": one discover call at the requested page
discoverOne(env, filters, discoverFilters, log) ==
    discoverOneFound(filters,
        DiscoverPage(env, filters.MediaType,
                     [discoverFilters EXCEPT
                         !.Sort = tmdbSort(filters.Sort, filters.MediaType)],
                     filters.Page, log))

\* the default case of searchTMDB adding up the two page counts
discoverAllFound_sumPages(filters, movies, tv) ==
    IF tv.err
    THEN NoPaging([err |-> TRUE, data |-> EmptySearchPage, log |-> tv.log])
    ELSE NoPaging(
           [err  |-> FALSE,
            data |-> [Results      |-> movies.data.Results \o tv.data.Results,
                      Page         |-> filters.Page,
                      TotalPages   |-> movies.data.TotalPages
                                       + tv.data.TotalPages,
                      TotalResults |-> movies.data.TotalResults
                                       + tv.data.TotalResults],
            log  |-> tv.log])

\* searchTMDB, default case, after both discover calls returned: the tv
\* call's error, or the two result lists appended and the totals
discoverAllFound(filters, movies, tv) ==
    IF tv.err
    THEN NoPaging([err |-> TRUE, data |-> EmptySearchPage, log |-> tv.log])
    ELSE NoPaging(
           [err  |-> FALSE,
            data |-> [Results      |-> movies.data.Results \o tv.data.Results,
                      Page         |-> filters.Page,
                      TotalPages   |-> Max(movies.data.TotalPages,
                                           tv.data.TotalPages),
                      TotalResults |-> movies.data.TotalResults
                                       + tv.data.TotalResults],
            log  |-> tv.log])

\* searchTMDB, default case, after the movie call returned movies: its
\* error, or the tv call at the same page
discoverAllTv(env, filters, discoverFilters, movies) ==
    IF movies.err
    THEN NoPaging([err |-> TRUE, data |-> EmptySearchPage, log |-> movies.log])
    ELSE discoverAllFound(filters, movies,
             DiscoverPage(env, "tv",
                          [discoverFilters EXCEPT
                              !.Sort = tmdbSort(filters.Sort, "tv")],
                          filters.Page, movies.log))

\* searchTMDB, default case: a movie and then a tv discover call, both at the
\* requested page
discoverAll(env, filters, discoverFilters, log) ==
    discoverAllTv(env, filters, discoverFilters,
        DiscoverPage(env, "movie",
                     [discoverFilters EXCEPT
                         !.Sort = tmdbSort(filters.Sort, "movie")],
                     filters.Page, log))

\* the tmdb.DiscoverFilters searchTMDB builds from the search filters
discoverFiltersOf(filters) ==
    [YearFrom         |-> filters.YearFrom,
     YearTo           |-> filters.YearTo,
     MinRating        |-> filters.MinRating,
     MinVotes         |-> filters.MinVotes,
     Genres           |-> filters.GenreRaw,
     Sort             |-> "",
     OriginCountry    |-> filters.OriginCountry,
     OriginalLanguage |-> filters.OriginalLanguage]

\* searchTMDB.  env holds the provider's content, the query, the fault of
\* this request; the result also tells whether the paging loop ran out of
\* provider pages and what it had collected.
searchTMDB(env0, filters0, log) ==
    LET filters == [filters0 EXCEPT
                       !.Page = IF filters0.Page < 1 THEN 1 ELSE filters0.Page]
        env     == [env0 EXCEPT !.mediaType = filters.MediaType]
        startFromFirst == ~isEmpty(filters) \/ filters.Sort # "relevance"
        discoverFilters == discoverFiltersOf(filters)
    IN  IF env.query # ""
        THEN searchWithFilterPaging(env, filters, perPage, tmdbPageSize,
                                    startFromFirst, TRUE, log)
        ELSE IF isEmpty(filters)
        THEN NoPaging([err |-> FALSE, data |-> EmptySearchPage, log |-> log])
        ELSE IF filters.MediaType \in {"movie", "tv"}
        THEN discoverOne(env, filters, discoverFilters, log)
        ELSE discoverAll(env, filters, discoverFilters, log)

(***************************************************************************)
(* Reference lists and title details at the provider (external service)    *)
(***************************************************************************)

\* GET /genre/{kind}/list
ProviderGenres(cat, kind) ==
    IF cat.refs = "empty" THEN <<>>
    ELSE IF kind = "movie"
    THEN <<[ID |-> 1, Name |-> "Action"], [ID |-> 2, Name |-> "Drama"]>>
    ELSE <<[ID |-> 2, Name |-> "Drama"], [ID |-> 3, Name |-> "Kids"],
           [ID |-> 4, Name |-> " "]>>

\* GET /configuration/countries
ProviderCountries(cat) ==
    IF cat.refs = "empty" THEN <<>>
    ELSE <<[iso_3166_1 |-> <<"U", "S">>, english_name |-> <<"U", "s", "a">>],
           [iso_3166_1 |-> <<" ">>, english_name |-> <<"x">>],
           [iso_3166_1 |-> <<"G", "B">>, english_name |-> <<" ", "G", "b", " ">>],
           [iso_3166_1 |-> <<"F", "R">>, english_name |-> <<"F", "r", "a">>]>>

\* GET /configuration/languages
ProviderLanguages(cat) ==
    IF cat.refs = "empty" THEN <<>>
    ELSE <<[iso_639_1 |-> <<"f", "r">>, english_name |-> <<>>,
            name |-> <<"F", "r", "a">>],
           [iso_639_1 |-> <<"e", "n">>, english_name |-> <<"E", "n", "g">>,
            name |-> <<"e">>],
           [iso_639_1 |-> <<>>, english_name |-> <<"x">>, name |-> <<"x">>]>>

\* GET /{kind}/{id}: 404 for an id the provider does not hold
ProviderDetails(cat, kind, id) ==
    LET names == <<"Action", "Drama", " ">>
        item  == RawItem(kind, id)
    IN  IF id \notin 1..cat[kind] THEN [status |-> 404]
        ELSE [status  |-> 200,
              payload |->
                 [item    |-> item,
                  imdb_id |-> IF id % 3 = 1 THEN "tt1"
                              ELSE IF id % 3 = 2 THEN " " ELSE "",
                  genres  |-> [i \in 1..Len(item.genre_ids) |->
                                  [ID   |-> item.genre_ids[i],
                                   Name |-> names[item.genre_ids[i]]]],
                  production_countries |->
                      IF id % 2 = 0 THEN <<>>
                      ELSE <<[iso_3166_1 |-> <<"F", "R">>],
                             [iso_3166_1 |-> <<" ">>]>>]]

\* strings.TrimSpace(s) == "" for the names kept as TLA+ strings
IsBlank(s) == s \in {"", " "}

(***************************************************************************)
(* Reference-list caches and title details (handlers.go, internal/tmdb)    *)
(***************************************************************************)

cacheTTL == 24     \* hours

\* append([]T(nil), list...): nil when list is empty
CopySlice(list) == IF Len(list) = 0 THEN Nil ELSE Some(list)

\* Client.FetchGenres
FetchGenres(env, mediaType, log) ==
    IF mediaType \notin {"movie", "tv"}
    THEN [err |-> TRUE, list |-> <<>>, log |-> log]
    ELSE IF Fails(log, env.fault)
    THEN [err |-> TRUE, list |-> <<>>,
          log |-> Append(log, ProviderCall("genre", mediaType, 0, FALSE))]
    ELSE [err |-> FALSE, list |-> ProviderGenres(env.cat, mediaType),
          log |-> Append(log, ProviderCall("genre", mediaType, 0, TRUE))]

\* the id-to-name map fetchGenreLists builds, blank names left out
GenreMap(list) ==
    LET named == {i \in 1..Len(list) : ~IsBlank(list[i].Name)}
    IN  [id \in {list[i].ID : i \in named} |->
            list[CHOOSE i \in named :
                    /\ list[i].ID = id
                    /\ \A j \in named : list[j].ID = id => j <= i].Name]

\* fetchGenreLists
fetchGenreLists(env, cache, clock, log) ==
    LET movieGenres == FetchGenres(env, "movie", log)
        tvGenres    == FetchGenres(env, "tv", movieGenres.log)
    IN  IF cache.movieList.ok /\ cache.tvList.ok
           /\ clock - cache.fetchedAt < cacheTTL
        THEN [err |-> FALSE, movie |-> cache.movieList.val,
              tv |-> cache.tvList.val, cache |-> cache, log |-> log]
        ELSE IF movieGenres.err
        THEN [err |-> TRUE, movie |-> <<>>, tv |-> <<>>, cache |-> cache,
              log |-> movieGenres.log]
        ELSE IF tvGenres.err
        THEN [err |-> TRUE, movie |-> <<>>, tv |-> <<>>, cache |-> cache,
              log |-> tvGenres.log]
        ELSE [err   |-> FALSE,
              movie |-> movieGenres.list,
              tv    |-> tvGenres.list,
              cache |-> [movieList |-> CopySlice(movieGenres.list),
                         tvList    |-> CopySlice(tvGenres.list),
                         movie     |-> Some(GenreMap(movieGenres.list)),
                         tv        |-> Some(GenreMap(tvGenres.list)),
                         fetchedAt |-> clock],
              log   |-> tvGenres.log]

\* genreMaps: a failed refresh is not reported, both maps are nil then
genreMaps(env, cache, clock, log) ==
    LET fetched == fetchGenreLists(env, cache, clock, log)
    IN  IF cache.movie.ok /\ cache.tv.ok /\ clock - cache.fetchedAt < cacheTTL
        THEN [movie |-> cache.movie, tv |-> cache.tv, cache |-> cache,
              log |-> log]
        ELSE IF fetched.err
        THEN [movie |-> Nil, tv |-> Nil, cache |-> fetched.cache,
              log |-> fetched.log]
        ELSE [movie |-> fetched.cache.movie, tv |-> fetched.cache.tv,
              cache |-> fetched.cache, log |-> fetched.log]

\* genreNamesFor
genreNamesFor(item, movieGenres, tvGenres) ==
    LET lookup == IF item.MediaType = "tv" THEN tvGenres ELSE movieGenres
        known  == SelectSeq(item.GenreIDs,
                            LAMBDA id : id \in DOMAIN lookup.val)
    IN  IF ~lookup.ok \/ Len(item.GenreIDs) = 0 THEN <<>>
        ELSE [i \in 1..Len(known) |-> lookup.val[known[i]]]

\* the comparator of fetchCountryList and fetchLanguageList
lessByName(a, b) ==
    LET nameA == ToLower(TrimSpace(a.Name))
        nameB == ToLower(TrimSpace(b.Name))
    IN  IF nameA = nameB
        THEN Compare(ToLower(a.Code), ToLower(b.Code)) < 0
        ELSE Compare(nameA, nameB) < 0

\* Client.FetchCountries: entries with an empty code are skipped
FetchCountries(env, log) ==
    LET payload == ProviderCountries(env.cat)
        kept    == SelectSeq(payload,
                             LAMBDA item : TrimSpace(item.iso_3166_1) # <<>>)
    IN  IF Fails(log, env.fault)
        THEN [err |-> TRUE, list |-> <<>>,
              log |-> Append(log, ProviderCall("countries", "", 0, FALSE))]
        ELSE [err  |-> FALSE,
              list |-> [i \in 1..Len(kept) |->
                          [Code |-> TrimSpace(kept[i].iso_3166_1),
                           Name |-> TrimSpace(kept[i].english_name)]],
              log  |-> Append(log, ProviderCall("countries", "", 0, TRUE))]

\* Client.FetchLanguages: the native name stands in for an empty english one
FetchLanguages(env, log) ==
    LET payload == ProviderLanguages(env.cat)
        kept    == SelectSeq(payload,
                             LAMBDA item : TrimSpace(item.iso_639_1) # <<>>)
    IN  IF Fails(log, env.fault)
        THEN [err |-> TRUE, list |-> <<>>,
              log |-> Append(log, ProviderCall("languages", "", 0, FALSE))]
        ELSE [err  |-> FALSE,
              list |-> [i \in 1..Len(kept) |->
                          [Code |-> TrimSpace(kept[i].iso_639_1),
                           Name |-> IF TrimSpace(kept[i].english_name) = <<>>
                                    THEN TrimSpace(kept[i].name)
                                    ELSE TrimSpace(kept[i].english_name)]],
              log  |-> Append(log, ProviderCall("languages", "", 0, TRUE))]

\* fetchCountryList / fetchLanguageList: the same read-through cache around
\* the given fetch result
fetchList(cache, clock, fetched, log) ==
    LET idx    == 1..Len(fetched.list)
        sorted == SortFunc(fetched.list,
                           [i \in idx, j \in idx |->
                               lessByName(fetched.list[i], fetched.list[j])])
    IN  IF cache.items.ok /\ clock - cache.fetchedAt < cacheTTL
        THEN [err |-> FALSE, list |-> cache.items.val, cache |-> cache,
              log |-> log]
        ELSE IF fetched.err
        THEN [err |-> TRUE, list |-> <<>>, cache |-> cache,
              log |-> fetched.log]
        ELSE [err   |-> FALSE,
              list  |-> sorted,
              cache |-> [items |-> CopySlice(sorted), fetchedAt |-> clock],
              log   |-> fetched.log]

fetchCountryList(env, cache, clock, log) ==
    fetchList(cache, clock, FetchCountries(env, log), log)

fetchLanguageList(env, cache, clock, log) ==
    fetchList(cache, clock, FetchLanguages(env, log), log)

\* Client.FetchDetails: a status of 400 or above is doJSON's error
FetchDetails(env, id, mediaType, log) ==
    LET answer == ProviderDetails(env.cat, mediaType, id)
        failed == Fails(log, env.fault) \/ answer.status >= 400
        r      == answer.payload.item
        named  == SelectSeq(answer.payload.genres,
                            LAMBDA g : ~IsBlank(g.Name))
        genreNames == [i \in 1..Len(named) |-> named[i].Name]
        production ==
            [i \in 1..Len(answer.payload.production_countries) |->
                answer.payload.production_countries[i].iso_3166_1]
        NonBlank(codes) ==
            SelectSeq([i \in 1..Len(codes) |-> TrimSpace(codes[i])],
                      LAMBDA code : code # <<>>)
    IN  IF mediaType \notin {"movie", "tv"}
        THEN [err |-> TRUE, log |-> log]
        ELSE IF failed
        THEN [err |-> TRUE,
              log |-> Append(log, ProviderCall("details", mediaType, id, FALSE))]
        ELSE [err    |-> FALSE,
              detail |-> [TMDBID        |-> r.id,
                          MediaType     |-> mediaType,
                          Title         |-> IF mediaType = "tv" THEN r.name
                                            ELSE r.title,
                          Year          |-> IF mediaType = "tv"
                                            THEN yearFromDate(r.first_air_date)
                                            ELSE yearFromDate(r.release_date),
                          IMDbID        |-> answer.payload.imdb_id,
                          Genres        |-> genreNames,
                          OriginCountry |-> IF Len(r.origin_country) > 0
                                            THEN NonBlank(r.origin_country)
                                            ELSE NonBlank(production),
                          VoteAverage   |-> r.vote_average,
                          VoteCount     |-> r.vote_count],
              log    |-> Append(log, ProviderCall("details", mediaType, id, TRUE))]

(***************************************************************************)
(* The shows table (internal/store)                                        *)
(*                                                                         *)
(* A library is the table's rows, the largest id AUTOINCREMENT has handed  *)
(* out and the connection's last insert rowid.  The columns overview and   *)
(* poster_path are passed through untouched and left out.  genres and      *)
(* origin_country hold the joined names; they are kept as the list that was*)
(* joined (no name of the provider holds a comma).  A sql.Null value is    *)
(* Nil or Some(v).  Times are the clock's hours.                           *)
(***************************************************************************)

EmptyLibrary == [shows |-> {}, seq |-> 0, lastInsert |-> 0]

\* one entry of the record of store statements
StoreStmt(op, ok) == [op |-> op, ok |-> ok]

\* the next store statement of this request fails when it is the fault's
StmtFails(log, fault) == Len(log) + 1 = fault.db

\* errors of the store: none, sql.ErrNoRows, any other
ErrNone == "nil"
ErrNoRows == "sql: no rows in result set"
ErrDB == "database error"
ErrNoFields == "no ratings fields provided"

\* the outcome of a statement that failed
StmtFailed(lib, log, op) ==
    [err |-> ErrDB, lib |-> lib, log |-> Append(log, StoreStmt(op, FALSE))]

\* expectRowsAffected, for a statement that touched n rows
expectRowsAffected(n) == IF n = 0 THEN ErrNoRows ELSE ErrNone

\* toSQLNullNumeric
toSQLNullNumeric(val) == IF val > 0 THEN Some(val) ELSE Nil

\* toSQLNullString, for the names kept as TLA+ strings
toSQLNullString(val) == IF IsBlank(val) THEN Nil ELSE Some(val)

\* showFromDetail
showFromDetail(detail, status) ==
    [ID            |-> 0,
     TMDBID        |-> detail.TMDBID,
     MediaType     |-> detail.MediaType,
     Title         |-> detail.Title,
     Year          |-> ParseYear(detail.Year),
     Genres        |-> IF Len(detail.Genres) > 0 THEN Some(detail.Genres)
                       ELSE Nil,
     IMDbID        |-> toSQLNullString(detail.IMDbID),
     TMDBRating    |-> toSQLNullNumeric(detail.VoteAverage),
     TMDBVotes     |-> toSQLNullNumeric(detail.VoteCount),
     OriginCountry |-> IF Len(detail.OriginCountry) > 0
                       THEN Some(detail.OriginCountry) ELSE Nil,
     Status        |-> status,
     BfRating      |-> Nil,
     GfRating      |-> Nil,
     BfComment     |-> Nil,
     GfComment     |-> Nil,
     CreatedAt     |-> 0,
     UpdatedAt     |-> 0]

\* the rows with the given id (at most one: id is the primary key)
RowsByID(lib, id) == {s \in lib.shows : s.ID = id}

\* the rows with the given pair (at most one: the pair is UNIQUE)
RowsByTMDB(lib, tmdbID, mediaType) ==
    {s \in lib.shows : s.TMDBID = tmdbID /\ s.MediaType = mediaType}

\* the table with row old replaced by row new
Replace(lib, old, new) ==
    [lib EXCEPT !.shows = (lib.shows \ {old}) \cup {new}]

\* Store.GetShowIDByTMDB
GetShowIDByTMDB(lib, tmdbID, mediaType, log, fault) ==
    LET found == RowsByTMDB(lib, tmdbID, mediaType)
    IN  IF StmtFails(log, fault)
        THEN [err |-> ErrDB, id |-> 0, lib |-> lib,
              log |-> Append(log, StoreStmt("GetShowIDByTMDB", FALSE))]
        ELSE [err |-> IF found = {} THEN ErrNoRows ELSE ErrNone,
              id  |-> IF found = {} THEN 0 ELSE (CHOOSE s \in found : TRUE).ID,
              lib |-> lib,
              log |-> Append(log, StoreStmt("GetShowIDByTMDB", TRUE))]

\* the statement as INSERT OR REPLACE: the row with the show's pair is
\* deleted and the show inserted as a new row
UpsertExec_replace(lib, show, clock) ==
    LET found == RowsByTMDB(lib, show.TMDBID, show.MediaType)
        id    == lib.seq + 1
    IN  [shows      |-> (lib.shows \ found) \cup
                           {[show EXCEPT !.ID = id,
                                         !.BfRating = Nil,
                                         !.GfRating = Nil,
                                         !.BfComment = Nil,
                                         !.GfComment = Nil,
                                         !.CreatedAt = clock,
                                         !.UpdatedAt = clock]},
         seq        |-> id,
         lastInsert |-> id]

\* the INSERT ... ON CONFLICT DO UPDATE of UpsertShow: a new row gets the
\* next id and NULL ratings and comments; a row with the show's pair keeps
\* its id, ratings, comments and created_at.  Only an insert moves the
\* connection's last insert rowid.
UpsertExec(lib, show, clock) ==
    LET found == RowsByTMDB(lib, show.TMDBID, show.MediaType)
        old   == CHOOSE s \in found : TRUE
        id    == lib.seq + 1
    IN  IF found = {}
        THEN [shows      |-> lib.shows \cup
                               {[show EXCEPT !.ID = id,
                                             !.BfRating = Nil,
                                             !.GfRating = Nil,
                                             !.BfComment = Nil,
                                             !.GfComment = Nil,
                                             !.CreatedAt = clock,
                                             !.UpdatedAt = clock]},
              seq        |-> id,
              lastInsert |-> id]
        ELSE Replace(lib, old,
                     [old EXCEPT !.Title = show.Title,
                                 !.Year = show.Year,
                                 !.Genres = show.Genres,
                                 !.IMDbID = show.IMDbID,
                                 !.TMDBRating = show.TMDBRating,
                                 !.TMDBVotes = show.TMDBVotes,
                                 !.OriginCountry = show.OriginCountry,
                                 !.Status = show.Status,
                                 !.UpdatedAt = clock])

\* UpsertShow after its statement ran: res.LastInsertId() when it is not 0,
\* the id looked up by the show's pair otherwise
UpsertResult(after, show, log, fault) ==
    IF after.lastInsert # 0
    THEN [err |-> ErrNone, id |-> after.lastInsert, lib |-> after, log |-> log]
    ELSE GetShowIDByTMDB(after, show.TMDBID, show.MediaType, log, fault)

\* Store.UpsertShow
UpsertShow(lib, show, clock, log, fault) ==
    IF StmtFails(log, fault)
    THEN [err |-> ErrDB, id |-> 0, lib |-> lib,
          log |-> Append(log, StoreStmt("UpsertShow", FALSE))]
    ELSE UpsertResult(UpsertExec(lib, show, clock), show,
                      Append(log, StoreStmt("UpsertShow", TRUE)), fault)

\* Store.GetShow
GetShow(lib, id, log, fault) ==
    LET found == RowsByID(lib, id)
    IN  IF StmtFails(log, fault)
        THEN [err |-> ErrDB, show |-> Nil, lib |-> lib,
              log |-> Append(log, StoreStmt("GetShow", FALSE))]
        ELSE [err  |-> IF found = {} THEN ErrNoRows ELSE ErrNone,
              show |-> IF found = {} THEN Nil
                       ELSE Some(CHOOSE s \in found : TRUE),
              lib  |-> lib,
              log  |-> Append(log, StoreStmt("GetShow", TRUE))]

\* an UPDATE ... WHERE id = ? that turns the row s into changed[s]
UpdateByID(lib, id, changed, op, log, fault) ==
    LET found == RowsByID(lib, id)
        old   == CHOOSE s \in found : TRUE
    IN  IF StmtFails(log, fault) THEN StmtFailed(lib, log, op)
        ELSE [err |-> expectRowsAffected(Cardinality(found)),
              lib |-> IF found = {} THEN lib ELSE Replace(lib, old, changed[old]),
              log |-> Append(log, StoreStmt(op, TRUE))]

\* Store.UpdateRatings: the fields of update that are set, and with them
\* status = 'watched' and updated_at
UpdateRatings(lib, id, update, clock, log, fault) ==
    LET changed == [s \in lib.shows |->
                      [s EXCEPT
                         !.BfRating  = IF update.BfRating.ok
                                       THEN update.BfRating.val ELSE @,
                         !.GfRating  = IF update.GfRating.ok
                                       THEN update.GfRating.val ELSE @,
                         !.BfComment = IF update.BfComment.ok
                                       THEN update.BfComment.val ELSE @,
                         !.GfComment = IF update.GfComment.ok
                                       THEN update.GfComment.val ELSE @,
                         !.Status    = "watched",
                         !.UpdatedAt = clock]]
    IN  IF ~(update.BfRating.ok \/ update.GfRating.ok
                \/ update.BfComment.ok \/ update.GfComment.ok)
        THEN [err |-> ErrNoFields, lib |-> lib, log |-> log]
        ELSE UpdateByID(lib, id, changed, "UpdateRatings", log, fault)

\* Store.UpdateStatus
UpdateStatus(lib, id, status, clock, log, fault) ==
    UpdateByID(lib, id,
               [s \in lib.shows |->
                   [s EXCEPT !.Status = status, !.UpdatedAt = clock]],
               "UpdateStatus", log, fault)

\* Store.ClearRatings
ClearRatings(lib, id, clock, log, fault) ==
    UpdateByID(lib, id,
               [s \in lib.shows |->
                   [s EXCEPT !.BfRating = Nil, !.GfRating = Nil,
                             !.BfComment = Nil, !.GfComment = Nil,
                             !.UpdatedAt = clock]],
               "ClearRatings", log, fault)

\* Store.DeleteShow
DeleteShow(lib, id, log, fault) ==
    LET found == RowsByID(lib, id)
    IN  IF StmtFails(log, fault) THEN StmtFailed(lib, log, "DeleteShow")
        ELSE [err |-> expectRowsAffected(Cardinality(found)),
              lib |-> [lib EXCEPT !.shows = lib.shows \ found],
              log |-> Append(log, StoreStmt("DeleteShow", TRUE))]

\* Store.InLibraryByTMDB with a WHERE clause on tmdb_id alone
InLibraryByTMDB_idOnly(lib, refs, log, fault) ==
    LET conds == {ref \in refs : ref.ID # 0 /\ ref.MediaType # ""}
    IN  IF conds = {} THEN [err |-> ErrNone, out |-> {}, log |-> log]
        ELSE IF StmtFails(log, fault)
        THEN [err |-> ErrDB, out |-> {},
              log |-> Append(log, StoreStmt("InLibraryByTMDB", FALSE))]
        ELSE [err |-> ErrNone,
              out |-> {ref \in conds :
                          \E row \in lib.shows : row.TMDBID = ref.ID},
              log |-> Append(log, StoreStmt("InLibraryByTMDB", TRUE))]

\* Store.InLibraryByTMDB: the (tmdb id, media type) pairs among refs that a
\* row carries; no statement runs when no reference is left to look up
InLibraryByTMDB(lib, refs, log, fault) ==
    LET conds == {ref \in refs : ref.ID # 0 /\ ref.MediaType # ""}
    IN  IF conds = {} THEN [err |-> ErrNone, out |-> {}, log |-> log]
        ELSE IF StmtFails(log, fault)
        THEN [err |-> ErrDB, out |-> {},
              log |-> Append(log, StoreStmt("InLibraryByTMDB", FALSE))]
        ELSE [err |-> ErrNone,
              out |-> {ref \in conds :
                          RowsByTMDB(lib, ref.ID, ref.MediaType) # {}},
              log |-> Append(log, StoreStmt("InLibraryByTMDB", TRUE))]

\* the rows of a set in the order of their ids, the order a table scan
\* yields them in
ByID(rows) ==
    [k \in 1..Cardinality(rows) |->
        CHOOSE s \in rows : Cardinality({t \in rows : t.ID < s.ID}) = k - 1]

\* Store.ListShows for the status and unrated filters (year, genre, country
\* and sort absent): WHERE 1=1 AND status = ? AND bf_rating IS NULL OR
\* gf_rating IS NULL as SQL reads it, AND before OR; ORDER BY updated_at
\* DESC, rows of one update time in scan order
ListShows(lib, filters, log, fault) ==
    LET statusOK(s) == filters.Status \in {"", "all"} \/ s.Status = filters.Status
        where(s)    == IF filters.Unrated
                       THEN (statusOK(s) /\ ~s.BfRating.ok) \/ ~s.GfRating.ok
                       ELSE statusOK(s)
        rows        == ByID({s \in lib.shows : where(s)})
        idx         == 1..Len(rows)
    IN  IF StmtFails(log, fault)
        THEN [err |-> ErrDB, out |-> <<>>, lib |-> lib,
              log |-> Append(log, StoreStmt("ListShows", FALSE))]
        ELSE [err |-> ErrNone,
              out |-> SortFunc(rows, [i \in idx, j \in idx |->
                                         rows[i].UpdatedAt > rows[j].UpdatedAt]),
              lib |-> lib,
              log |-> Append(log, StoreStmt("ListShows", TRUE))]

\* Store.ListAllGenres: the names in the genres columns, each once.  The
\* result is sorted by lower-cased name; it is kept as the set of names.
ListAllGenres(lib, log, fault) ==
    IF StmtFails(log, fault)
    THEN [err |-> ErrDB, out |-> {}, lib |-> lib,
          log |-> Append(log, StoreStmt("ListAllGenres", FALSE))]
    ELSE [err |-> ErrNone,
          out |-> UNION {Range(s.Genres.val) :
                            s \in {t \in lib.shows : t.Genres.ok}},
          lib |-> lib,
          log |-> Append(log, StoreStmt("ListAllGenres", TRUE))]

\* Store.ListAllCountries: the codes in the origin_country columns, each
\* once, kept as the set of codes like the genre names
ListAllCountries(lib, log, fault) ==
    IF StmtFails(log, fault)
    THEN [err |-> ErrDB, out |-> {}, lib |-> lib,
          log |-> Append(log, StoreStmt("ListAllCountries", FALSE))]
    ELSE [err |-> ErrNone,
          out |-> UNION {Range(s.OriginCountry.val) :
                            s \in {t \in lib.shows : t.OriginCountry.ok}},
          lib |-> lib,
          log |-> Append(log, StoreStmt("ListAllCountries", TRUE))]

\* Store.ListTMDBMissing: pair and status of the rows that lack a provider
\* rating, vote count, IMDb id or origin country
ListTMDBMissing(lib, log, fault) ==
    LET missing == ByID({s \in lib.shows :
                            \/ ~s.TMDBRating.ok
                            \/ ~s.TMDBVotes.ok
                            \/ ~s.IMDbID.ok
                            \/ ~s.OriginCountry.ok})
    IN  IF StmtFails(log, fault)
        THEN [err |-> ErrDB, out |-> <<>>, lib |-> lib,
              log |-> Append(log, StoreStmt("ListTMDBMissing", FALSE))]
        ELSE [err |-> ErrNone,
              out |-> [k \in 1..Len(missing) |->
                          [TMDBID    |-> missing[k].TMDBID,
                           MediaType |-> missing[k].MediaType,
                           Status    |-> missing[k].Status]],
              lib |-> lib,
              log |-> Append(log, StoreStmt("ListTMDBMissing", TRUE))]

(***************************************************************************)
(* HTTP handlers (handlers.go, adapt.go, helpers.go, store.go)             *)
(*                                                                         *)
(* A handler returns what it returned and wrote, the library and caches it *)
(* left, and the provider calls (log or calls) and store statements (stmts)*)
(* it made.                                                                *)
(***************************************************************************)

StatusOK == 200
StatusNoContent == 204
StatusBadRequest == 400
StatusUnauthorized == 401
StatusNotFound == 404
StatusInternalServerError == 500
StatusBadGateway == 502

MaxInt32 == 2147483647
MinInt32 == -MaxInt32 - 1

\* toInt32
toInt32(val) ==
    IF val > MaxInt32 THEN MaxInt32
    ELSE IF val < MinInt32 THEN MinInt32
    ELSE val

\* Config.Password
Password == "secret"

\* the SHA-256 hex digests of the passwords the model submits
SHA256Hex ==
    [secret |-> "2bb80d537b1da3e38bd30361aa855686bde0eacd7162fef6a25fe97bf527a25b",
     guess  |-> "f1abe1b083d12d181ae136cfc75b8d18a8ecb43ac4e9d1a36d6a9c75b6016b61"]

\* hashPassword
hashPassword(password) == SHA256Hex[password]

\* isAuthenticated, accepting whatever cookie is there
isAuthenticated_anyCookie(r) ==
    /\ r.cookie.ok
    /\ r.cookie.val # ""

\* isAuthenticated: the auth cookie is there, is not empty and equals
\* Handler.passHash
isAuthenticated(r) ==
    /\ r.cookie.ok
    /\ r.cookie.val # ""
    /\ hashPassword(Password) # ""
    /\ r.cookie.val = hashPassword(Password)

\* what a HandlerWithErr returns: nil, an *Error, or another error
ReturnNil == [kind |-> "nil"]
StatusError(status, message) ==
    [kind |-> "Error", Status |-> status, Message |-> message]
badRequest(msg) == StatusError(StatusBadRequest, msg)
unauthorized(msg) == StatusError(StatusUnauthorized, msg)
notFound(msg) == StatusError(StatusNotFound, msg)
internal(msg) == [kind |-> "error", Message |-> msg]

\* Adapt: an *Error is written with its own status, any other error as 500;
\* on nil the handler has written its response itself
Adapt(ret, written) ==
    IF ret.kind = "nil" THEN written
    ELSE IF ret.kind = "Error"
    THEN [status |-> ret.Status, body |-> [error |-> ret.Message]]
    ELSE [status |-> StatusInternalServerError,
          body   |-> [error |-> ret.Message]]

NoResponse == [status |-> 0]

\* lookupInLibrary: Store.InLibraryByTMDB on the references of the items
\* that carry an id and a media type
lookupInLibrary(lib, items, log, fault) ==
    InLibraryByTMDB(lib,
        {[ID |-> items[i].ID, MediaType |-> items[i].MediaType] :
            i \in {j \in 1..Len(items) :
                      items[j].ID # 0 /\ items[j].MediaType # ""}},
        log, fault)

\* getSearch, once the library lookup and the genre maps are there: the
\* lookup's error, or the response
getSearchWrite(cache, pageData, inLibrary, maps) ==
    LET item(i) == pageData.data.Results[i]
        results ==
            [i \in 1..Len(pageData.data.Results) |->
                [Id               |-> item(i).ID,
                 MediaType        |-> item(i).MediaType,
                 Title            |-> item(i).Title,
                 Year             |-> item(i).Year,
                 VoteAverage      |-> item(i).VoteAverage,
                 VoteCount        |-> toInt32(item(i).VoteCount),
                 InLibrary        |-> [ID |-> item(i).ID,
                                       MediaType |-> item(i).MediaType]
                                          \in inLibrary.out,
                 Genres           |-> genreNamesFor(item(i), maps.movie, maps.tv),
                 OriginCountry    |-> item(i).OriginCountry,
                 OriginalLanguage |-> item(i).OriginalLanguage]]
    IN  IF inLibrary.err # ErrNone
        THEN [ret |-> internal(inLibrary.err), written |-> NoResponse,
              cache |-> cache, log |-> pageData.log, stmts |-> inLibrary.log,
              pageData |-> pageData]
        ELSE [ret      |-> ReturnNil,
              written  |-> [status |-> StatusOK,
                            body   |-> [results       |-> results,
                                        page          |-> toInt32(pageData.data.Page),
                                        total_pages   |-> toInt32(pageData.data.TotalPages),
                                        total_results |-> toInt32(pageData.data.TotalResults)]],
              cache    |-> maps.cache,
              log      |-> maps.log,
              stmts    |-> inLibrary.log,
              pageData |-> pageData]

\* getSearch after searchTMDB returned pageData: its error as 502, or the
\* library lookup and the genre maps
getSearchFound(lib, cache, clock, env, pageData) ==
    IF pageData.err
    THEN [ret |-> StatusError(StatusBadGateway, "tmdb"), written |-> NoResponse,
          cache |-> cache, log |-> pageData.log, stmts |-> <<>>,
          pageData |-> pageData]
    ELSE getSearchWrite(cache, pageData,
                        lookupInLibrary(lib, pageData.data.Results, <<>>,
                                        env.fault),
                        genreMaps(env, cache, clock, pageData.log))

\* getSearch for the parsed query and filters
getSearchParsed(cat, lib, cache, clock, query, filters, fault) ==
    LET env == [cat |-> cat, query |-> query, mediaType |-> "",
                fault |-> fault]
    IN  IF query # "" /\ filters.MediaType \notin {"movie", "tv"}
        THEN [ret |-> badRequest("media_type required"),
              written |-> NoResponse, cache |-> cache, log |-> <<>>,
              stmts |-> <<>>,
              pageData |-> NoPaging([err |-> FALSE, data |-> EmptySearchPage,
                                     log |-> <<>>])]
        ELSE getSearchFound(lib, cache, clock, env,
                            searchTMDB(env, filters, <<>>))

\* getSearch
getSearch(cat, lib, cache, clock, r, fault) ==
    getSearchParsed(cat, lib, cache, clock, parseSearchRequest(r).Q,
                    searchFiltersFromRequest(parseSearchRequest(r)), fault)

\* getSearchGenres
getSearchGenres(cat, cache, clock, fault) ==
    LET env  == [cat |-> cat, query |-> "", mediaType |-> "", fault |-> fault]
        got  == fetchGenreLists(env, cache, clock, <<>>)
    IN  IF got.err
        THEN [ret |-> StatusError(StatusBadGateway, "tmdb"),
              written |-> NoResponse, cache |-> got.cache, log |-> got.log]
        ELSE [ret     |-> ReturnNil,
              written |-> [status |-> StatusOK,
                           body   |-> [movie_genres |-> got.movie,
                                       tv_genres    |-> got.tv]],
              cache   |-> got.cache,
              log     |-> got.log]

\* getSearchCountries and getSearchLanguages around their list fetch
getSearchList(got) ==
    IF got.err
    THEN [ret |-> StatusError(StatusBadGateway, "tmdb"),
          written |-> NoResponse, cache |-> got.cache, log |-> got.log]
    ELSE [ret     |-> ReturnNil,
          written |-> [status |-> StatusOK, body |-> [list |-> got.list]],
          cache   |-> got.cache,
          log     |-> got.log]

\* getSearchResolve
getSearchResolve(cat, r, fault) ==
    LET env       == [cat |-> cat, query |-> "", mediaType |-> "",
                      fault |-> fault]
        tmdbIDRaw == TrimSpace(r.tmdb_id)
        tmdbID    == Atoi(tmdbIDRaw)
        mediaType == r.media_type
        got       == FetchDetails(env, tmdbID.val, mediaType, <<>>)
    IN  IF tmdbIDRaw = <<>>
        THEN [ret |-> badRequest("tmdb_id required"), written |-> NoResponse,
              log |-> <<>>]
        ELSE IF ~tmdbID.ok \/ tmdbID.val <= 0
        THEN [ret |-> badRequest("invalid tmdb_id"), written |-> NoResponse,
              log |-> <<>>]
        ELSE IF mediaType \notin {"movie", "tv"}
        THEN [ret |-> badRequest("invalid media_type"), written |-> NoResponse,
              log |-> <<>>]
        ELSE IF got.err
        THEN [ret |-> internal("tmdb"), written |-> NoResponse,
              log |-> got.log]
        ELSE [ret     |-> ReturnNil,
              written |-> [status |-> StatusOK,
                           body   |-> [imdb_url |-> IF IsBlank(got.detail.IMDbID)
                                                    THEN Nil
                                                    ELSE Some(got.detail.IMDbID),
                                       tmdb_url |-> <<mediaType, tmdbID.val>>]],
              log     |-> got.log]

(***************************************************************************)
(* Session and library handlers (handlers.go)                              *)
(*                                                                         *)
(* A JSON body that decodeJSON rejects is Nil, one it accepts Some(fields);*)
(* an id path parameter that is no positive number is 0.                   *)
(***************************************************************************)

\* what a handler that returned ret leaves behind
Returned(ret, lib, log, stmtLog) ==
    [ret |-> ret, written |-> NoResponse, lib |-> lib, log |-> log,
     stmts |-> stmtLog]

\* what a handler that wrote body with status 200 leaves behind
Wrote(body, lib, log, stmtLog) ==
    [ret |-> ReturnNil, written |-> [status |-> StatusOK, body |-> body],
     lib |-> lib, log |-> log, stmts |-> stmtLog]

\* isNoRows
isNoRows(err) == err = ErrNoRows

\* what the handlers return for an error of the store on one show
storeError(err) ==
    IF isNoRows(err) THEN notFound("not found") ELSE internal(err)

\* the media type of an add-show request, once trimmed
MediaTypeOf(raw) ==
    IF raw = <<"m", "o", "v", "i", "e">> THEN "movie"
    ELSE IF raw = <<"t", "v">> THEN "tv"
    ELSE "other"

\* imdbURL and optionalString on its result: the title page of the id
imdbURL(id) ==
    IF ~id.ok \/ IsBlank(id.val) THEN Nil ELSE Some(<<"imdb", id.val>>)

\* toPBShow: sql.Null columns become optional fields, origin_country the
\* list of its names
toPBShow(show) ==
    [Id            |-> show.ID,
     TmdbId        |-> show.TMDBID,
     MediaType     |-> show.MediaType,
     Title         |-> show.Title,
     Year          |-> show.Year,
     Genres        |-> show.Genres,
     ImdbId        |-> show.IMDbID,
     TmdbRating    |-> show.TMDBRating,
     TmdbVotes     |-> show.TMDBVotes,
     Status        |-> show.Status,
     BfRating      |-> show.BfRating,
     GfRating      |-> show.GfRating,
     BfComment     |-> show.BfComment,
     GfComment     |-> show.GfComment,
     CreatedAt     |-> show.CreatedAt,
     UpdatedAt     |-> show.UpdatedAt,
     OriginCountry |-> IF show.OriginCountry.ok THEN show.OriginCountry.val
                       ELSE <<>>]

\* the pb.ShowDetail of a row
ShowDetail(show) ==
    [show |-> toPBShow(show), imdb_url |-> imdbURL(show.IMDbID)]

\* parseOptionalRating without the clamp
parseOptionalRating_asGiven(val) ==
    IF ~val.ok THEN Nil ELSE Some(val.val)

\* parseOptionalRating
parseOptionalRating(val) ==
    IF ~val.ok THEN Nil
    ELSE Some(IF val.val < 1 THEN 1 ELSE IF val.val > 10 THEN 10 ELSE val.val)

\* nextStatus (the statuses are lower-case words without spaces)
nextStatus(current) ==
    CASE current = "planned" -> "watched"
      [] current = "watched" -> "planned"
      [] OTHER -> "planned"

\* parseListFilters, for the status and unrated parameters
parseListFilters(r) == [Status |-> r.status, Unrated |-> r.unrated = "1"]

\* getSession
getSession(r) ==
    [ret     |-> ReturnNil,
     written |-> [status |-> StatusOK,
                  body   |-> [authenticated |-> isAuthenticated(r)]]]

\* postLogin: setAuthCookie puts the cookie into the response
postLogin(r) ==
    IF ~r.body.ok
    THEN [ret |-> badRequest("bad request"), written |-> NoResponse]
    ELSE IF r.body.val.password # Password
    THEN [ret |-> unauthorized("invalid password"), written |-> NoResponse]
    ELSE [ret     |-> ReturnNil,
          written |-> [status |-> StatusOK,
                       body   |-> [authenticated |-> TRUE],
                       cookie |-> hashPassword(Password)]]

\* postLogout: clearAuthCookie puts an empty cookie into the response
postLogout(r) ==
    [ret     |-> ReturnNil,
     written |-> [status |-> StatusOK,
                  body   |-> [authenticated |-> FALSE],
                  cookie |-> ""]]

\* getShows, once the three lists are there
getShowsWrite(lib, shows, genreNames, countryNames) ==
    IF shows.err # ErrNone
    THEN Returned(internal(shows.err), lib, <<>>, shows.log)
    ELSE IF genreNames.err # ErrNone
    THEN Returned(internal(genreNames.err), lib, <<>>, genreNames.log)
    ELSE IF countryNames.err # ErrNone
    THEN Returned(internal(countryNames.err), lib, <<>>, countryNames.log)
    ELSE Wrote([shows     |-> [i \in 1..Len(shows.out) |->
                                  toPBShow(shows.out[i])],
                genres    |-> genreNames.out,
                countries |-> countryNames.out],
               lib, <<>>, countryNames.log)

\* getShows after ListAllGenres
getShowsListed(lib, shows, genreNames, fault) ==
    getShowsWrite(lib, shows, genreNames,
                  ListAllCountries(lib, genreNames.log, fault))

\* getShows after ListShows
getShowsGot(lib, shows, fault) ==
    getShowsListed(lib, shows, ListAllGenres(lib, shows.log, fault), fault)

\* getShows
getShows(lib, r, fault) ==
    getShowsGot(lib, ListShows(lib, parseListFilters(r), <<>>, fault), fault)

\* postShows after UpsertShow succeeded and GetShow ran: the stored row, or
\* the show with its id when it could not be read
postShowsWrite(show, upserted, got, log) ==
    Wrote(ShowDetail(IF got.err # ErrNone
                     THEN [show EXCEPT !.ID = upserted.id]
                     ELSE got.show.val),
          upserted.lib, log, got.log)

\* postShows after UpsertShow
postShowsUpserted(show, upserted, log, fault) ==
    IF upserted.err # ErrNone
    THEN Returned(internal(upserted.err), upserted.lib, log, upserted.log)
    ELSE postShowsWrite(show, upserted,
                        GetShow(upserted.lib, upserted.id, upserted.log, fault),
                        log)

\* postShows after FetchDetails
postShowsFetched(lib, clock, status, got, fault) ==
    IF got.err
    THEN Returned(StatusError(StatusBadGateway, "tmdb"), lib, got.log, <<>>)
    ELSE postShowsUpserted(showFromDetail(got.detail, status),
                           UpsertShow(lib, showFromDetail(got.detail, status),
                                      clock, <<>>, fault),
                           got.log, fault)

\* postShows
postShows(cat, lib, clock, r, fault) ==
    LET env == [cat |-> cat, query |-> "", mediaType |-> "", fault |-> fault]
    IN  IF ~r.body.ok
        THEN Returned(badRequest("bad request"), lib, <<>>, <<>>)
        ELSE IF r.body.val.tmdb_id = 0
        THEN Returned(badRequest("tmdb_id required"), lib, <<>>, <<>>)
        ELSE IF MediaTypeOf(TrimSpace(r.body.val.media_type))
                    \notin {"movie", "tv"}
        THEN Returned(badRequest("invalid media_type"), lib, <<>>, <<>>)
        ELSE postShowsFetched(
                 lib, clock,
                 IF r.body.val.status \in {"planned", "watched"}
                 THEN r.body.val.status ELSE "planned",
                 FetchDetails(env, r.body.val.tmdb_id,
                              MediaTypeOf(TrimSpace(r.body.val.media_type)),
                              <<>>),
                 fault)

\* the end of the handlers of one show: the row read back into the response
showWrite(got, log) ==
    IF got.err # ErrNone
    THEN Returned(storeError(got.err), got.lib, log, got.log)
    ELSE Wrote(ShowDetail(got.show.val), got.lib, log, got.log)

\* the handlers of one show after their update: its error, or the row read
\* back
showUpdated(id, updated, fault) ==
    IF updated.err # ErrNone
    THEN Returned(storeError(updated.err), updated.lib, <<>>, updated.log)
    ELSE showWrite(GetShow(updated.lib, id, updated.log, fault), <<>>)

\* getShow
getShow(lib, r, fault) ==
    IF r.id <= 0 THEN Returned(notFound("not found"), lib, <<>>, <<>>)
    ELSE showWrite(GetShow(lib, r.id, <<>>, fault), <<>>)

\* deleteShow
deleteShowDone(deleted) ==
    IF deleted.err # ErrNone
    THEN Returned(storeError(deleted.err), deleted.lib, <<>>, deleted.log)
    ELSE [ret |-> ReturnNil, written |-> [status |-> StatusNoContent],
          lib |-> deleted.lib, log |-> <<>>, stmts |-> deleted.log]

deleteShow(lib, r, fault) ==
    IF r.id <= 0 THEN Returned(notFound("not found"), lib, <<>>, <<>>)
    ELSE deleteShowDone(DeleteShow(lib, r.id, <<>>, fault))

\* the store.RatingsUpdate of a ratings request: a field that is absent
\* stays nil, a rating goes through parseOptionalRating
RatingsUpdateOf(fields) ==
    [BfRating  |-> IF fields.bf_rating.ok
                   THEN Some(parseOptionalRating(fields.bf_rating)) ELSE Nil,
     GfRating  |-> IF fields.gf_rating.ok
                   THEN Some(parseOptionalRating(fields.gf_rating)) ELSE Nil,
     BfComment |-> IF fields.bf_comment.ok
                   THEN Some(Some(fields.bf_comment.val)) ELSE Nil,
     GfComment |-> IF fields.gf_comment.ok
                   THEN Some(Some(fields.gf_comment.val)) ELSE Nil]

\* postShowRatings
postShowRatings(lib, clock, r, fault) ==
    IF r.id <= 0 THEN Returned(notFound("not found"), lib, <<>>, <<>>)
    ELSE IF ~r.body.ok
    THEN Returned(badRequest("bad request"), lib, <<>>, <<>>)
    ELSE showUpdated(r.id,
                     UpdateRatings(lib, r.id, RatingsUpdateOf(r.body.val),
                                   clock, <<>>, fault),
                     fault)

\* postShowToggleStatus after the first GetShow
postShowToggleStatusGot(id, clock, got, fault) ==
    IF got.err # ErrNone
    THEN Returned(storeError(got.err), got.lib, <<>>, got.log)
    ELSE showUpdated(id,
                     UpdateStatus(got.lib, id, nextStatus(got.show.val.Status),
                                  clock, got.log, fault),
                     fault)

\* postShowToggleStatus
postShowToggleStatus(lib, clock, r, fault) ==
    IF r.id <= 0 THEN Returned(notFound("not found"), lib, <<>>, <<>>)
    ELSE postShowToggleStatusGot(r.id, clock, GetShow(lib, r.id, <<>>, fault),
                                 fault)

\* postShowClearRatings
postShowClearRatings(lib, clock, r, fault) ==
    IF r.id <= 0 THEN Returned(notFound("not found"), lib, <<>>, <<>>)
    ELSE showUpdated(r.id, ClearRatings(lib, r.id, clock, <<>>, fault), fault)

\* postShowRefreshTMDB after UpsertShow succeeded and GetShow ran
postShowRefreshTMDBWrite(updated, upserted, got, log) ==
    Wrote(ShowDetail(IF got.err # ErrNone THEN updated ELSE got.show.val),
          upserted.lib, log, got.log)

\* postShowRefreshTMDB after UpsertShow
postShowRefreshTMDBUpserted(id, updated, upserted, log, fault) ==
    IF upserted.err # ErrNone
    THEN Returned(internal(upserted.err), upserted.lib, log, upserted.log)
    ELSE postShowRefreshTMDBWrite(
             updated, upserted,
             GetShow(upserted.lib, id, upserted.log, fault), log)

\* postShowRefreshTMDB after FetchDetails
postShowRefreshTMDBFetched(id, clock, found, fetched, fault) ==
    IF fetched.err
    THEN Returned(StatusError(StatusBadGateway, "tmdb"), found.lib,
                  fetched.log, found.log)
    ELSE postShowRefreshTMDBUpserted(
             id,
             [showFromDetail(fetched.detail, found.show.val.Status)
                 EXCEPT !.ID = found.show.val.ID],
             UpsertShow(found.lib,
                        showFromDetail(fetched.detail, found.show.val.Status),
                        clock, found.log, fault),
             fetched.log, fault)

\* postShowRefreshTMDB after the first GetShow
postShowRefreshTMDBGot(cat, id, clock, found, fault) ==
    IF found.err # ErrNone
    THEN Returned(storeError(found.err), found.lib, <<>>, found.log)
    ELSE postShowRefreshTMDBFetched(
             id, clock, found,
             FetchDetails([cat |-> cat, query |-> "", mediaType |-> "",
                           fault |-> fault],
                          found.show.val.TMDBID, found.show.val.MediaType,
                          <<>>),
             fault)

\* postShowRefreshTMDB
postShowRefreshTMDB(cat, lib, clock, r, fault) ==
    IF r.id <= 0 THEN Returned(notFound("not found"), lib, <<>>, <<>>)
    ELSE postShowRefreshTMDBGot(cat, r.id, clock,
                                GetShow(lib, r.id, <<>>, fault), fault)

\* getGenres
getGenresWrite(lib, genreNames) ==
    IF genreNames.err # ErrNone
    THEN Returned(internal(genreNames.err), lib, <<>>, genreNames.log)
    ELSE Wrote([list |-> genreNames.out], lib, <<>>, genreNames.log)

getGenres(lib, fault) == getGenresWrite(lib, ListAllGenres(lib, <<>>, fault))

\* postExport
postExportWrite(lib, shows) ==
    IF shows.err # ErrNone
    THEN Returned(internal(shows.err), lib, <<>>, shows.log)
    ELSE Wrote([shows |-> [i \in 1..Len(shows.out) |-> toPBShow(shows.out[i])]],
               lib, <<>>, shows.log)

postExport(lib, fault) ==
    postExportWrite(lib, ListShows(lib, [Status |-> "all", Unrated |-> FALSE],
                                   <<>>, fault))

\* the loop of postRefreshTMDBAll from item k on: a failed fetch or upsert
\* ends the handler, the items before it stay refreshed
RECURSIVE refreshLoop(_, _, _, _, _)
refreshLoopUpserted(env, items, k, clock, upserted, log) ==
    IF upserted.err # ErrNone
    THEN Returned(internal(upserted.err), upserted.lib, log, upserted.log)
    ELSE refreshLoop(env, items, k + 1, clock,
                     [lib |-> upserted.lib, log |-> log,
                      stmts |-> upserted.log])

refreshLoopFetched(env, items, k, clock, st, fetched) ==
    IF fetched.err
    THEN Returned(StatusError(StatusBadGateway, "tmdb"), st.lib, fetched.log,
                  st.stmts)
    ELSE refreshLoopUpserted(
             env, items, k, clock,
             UpsertShow(st.lib, showFromDetail(fetched.detail, items[k].Status),
                        clock, st.stmts, env.fault),
             fetched.log)

refreshLoop(env, items, k, clock, st) ==
    IF k > Len(items)
    THEN Wrote([updated |-> toInt32(Len(items))], st.lib, st.log, st.stmts)
    ELSE refreshLoopFetched(env, items, k, clock, st,
                            FetchDetails(env, items[k].TMDBID,
                                         items[k].MediaType, st.log))

\* postRefreshTMDBAll
postRefreshTMDBAllListed(cat, lib, clock, missing, fault) ==
    IF missing.err # ErrNone
    THEN Returned(internal(missing.err), lib, <<>>, missing.log)
    ELSE refreshLoop([cat |-> cat, query |-> "", mediaType |-> "",
                      fault |-> fault],
                     missing.out, 1, clock,
                     [lib |-> lib, log |-> <<>>, stmts |-> missing.log])

postRefreshTMDBAll(cat, lib, clock, fault) ==
    postRefreshTMDBAllListed(cat, lib, clock,
                             ListTMDBMissing(lib, <<>>, fault), fault)

(***************************************************************************)
(* Requests, provider contents and faults the model runs on                *)
(***************************************************************************)

SmallUniverse == 5    \* a provider holding less than one page of a kind
MaxUniverse == 25     \* a provider holding more than one page of a kind
MaxFailAt == 4        \* the latest provider call of a request that may fail
MaxShowID == 4        \* the largest id the shows table hands out
MaxFailStmt == 3      \* the latest store statement of a request that may fail
TickHours == 12       \* how far one step of the clock goes
MaxClock == 24        \* the clock stops here

Sizes == {0, SmallUniverse, MaxUniverse}

Catalogs == [movie : Sizes, tv : Sizes, refs : {"full", "empty"}]

\* at most one provider call of a request fails, or one store statement
Faults ==
    {[call |-> k, db |-> 0] : k \in 0..MaxFailAt}
        \cup {[call |-> 0, db |-> k] : k \in 1..MaxFailStmt}

NoFault == [call |-> 0, db |-> 0]

\* the show the add-show request stores for a title of the provider
ShowOf(kind, id, status) ==
    showFromDetail(
        FetchDetails([cat |-> [movie |-> MaxUniverse, tv |-> MaxUniverse,
                               refs |-> "full"],
                      query |-> "", mediaType |-> "", fault |-> NoFault],
                     id, kind, <<>>).detail,
        status)

\* a library that movie 1 and then show 2 were added to
Library0 ==
    UpsertExec(UpsertExec(EmptyLibrary, ShowOf("movie", 1, "watched"), 0),
               ShowOf("tv", 2, "planned"), 0)

\* the handler's state after New(): nothing cached
EmptyGenreCache ==
    [movie |-> Nil, tv |-> Nil, movieList |-> Nil, tvList |-> Nil,
     fetchedAt |-> 0]
EmptyListCache == [items |-> Nil, fetchedAt |-> 0]

\* a sync.RWMutex: the goroutine holding it exclusively, if any, the
\* goroutines holding it shared, and the last one to have held it exclusively
NotHeld == [w |-> "", r |-> {}, last |-> ""]
Unlocked == [genres |-> NotHeld, countries |-> NotHeld, languages |-> NotHeld]

\* no request is being served concurrently
NoGoroutines == <<>>

\* the zero values New() leaves in the caches were assigned by no refresh
NothingStored ==
    [genres    |-> [movieList |-> "new", tvList |-> "new", movie |-> "new",
                    tv |-> "new", fetchedAt |-> "new"],
     countries |-> [items |-> "new", fetchedAt |-> "new"],
     languages |-> [items |-> "new", fetchedAt |-> "new"]]

NoPageData ==
    NoPaging([err |-> FALSE, data |-> EmptySearchPage, log |-> <<>>])

\* a request with every parameter absent
BlankRequest ==
    [method |-> "GET", route |-> "", cookie |-> Some(hashPassword(Password)),
     id |-> 0, body |-> Nil, status |-> "", unrated |-> "",
     tmdb_id |-> <<>>, q |-> "", media_type |-> "",
     year_from |-> <<>>, year_to |-> <<>>, min_rating |-> <<>>,
     min_votes |-> <<>>, sort |-> "", genres |-> <<>>,
     origin_country |-> <<>>, original_language |-> <<>>, page |-> <<>>]

PageParams == {<<>>, <<"-", "2">>, <<"2">>, <<" ", "3">>}

\* GET /search
SearchRequests ==
    [route             : {"/search"},
     method            : {"GET"},
     cookie            : {Some(hashPassword(Password))},
     id                : {0},
     body              : {Nil},
     status            : {""},
     unrated           : {""},
     tmdb_id           : {<<>>},
     q                 : {"", "q"},
     media_type        : {"", "movie", "tv"},
     year_from         : {<<>>},
     year_to           : {<<>>},
     min_rating        : {<<>>, <<"7", ".", "2", "5">>, <<"6">>},
     min_votes         : {<<>>},
     sort              : {"", "rating", "votes", "year", "title"},
     genres            : {<<>>, <<"1", "|", "2">>},
     origin_country    : {<<>>},
     original_language : {<<>>},
     page              : PageParams]

\* GET /search/genres, /search/countries, /search/languages
ListRequests ==
    {[BlankRequest EXCEPT !.route = rt] :
        rt \in {"/search/genres", "/search/countries", "/search/languages"}}

\* GET /search/resolve
ResolveRequests ==
    {[BlankRequest EXCEPT !.route = "/search/resolve", !.tmdb_id = id,
                          !.media_type = mt] :
        id \in {<<>>, <<"x">>, <<"0">>, <<" ", "2">>, <<"9", "9">>},
        mt \in {"", "movie", "tv"}}

\* the requests of the whole-server specification
Requests ==
    {r \in SearchRequests :
        /\ r.year_to = <<>> /\ r.genres = <<>> /\ r.sort = ""
        /\ r.page \in {<<>>, <<"2">>}}
      \cup ListRequests \cup ResolveRequests

\* the requests that read a reference list: the three list routes, and the
\* searches, which resolve genre names through the genre cache
RefreshRequests ==
    ListRequests
      \cup {r \in SearchRequests :
               /\ r.q = "q" /\ r.media_type \in {"", "tv"}
               /\ r.min_rating = <<>> /\ r.sort = "" /\ r.genres = <<>>
               /\ r.page = <<>>}

\* a request of the given method and route, authenticated
Request(method, route) ==
    [BlankRequest EXCEPT !.method = method, !.route = route]

\* the routes behind MiddlewareRequireAuth
ProtectedRoutes ==
    {<<"POST", "/logout">>, <<"GET", "/search">>, <<"GET", "/search/genres">>,
     <<"GET", "/search/countries">>, <<"GET", "/search/languages">>,
     <<"GET", "/search/resolve">>, <<"GET", "/genres">>, <<"GET", "/shows">>,
     <<"POST", "/shows">>, <<"GET", "/shows/{id}">>,
     <<"DELETE", "/shows/{id}">>, <<"POST", "/shows/{id}/ratings">>,
     <<"POST", "/shows/{id}/toggle-status">>,
     <<"POST", "/shows/{id}/clear-ratings">>,
     <<"POST", "/shows/{id}/refresh-tmdb">>, <<"POST", "/export">>,
     <<"POST", "/refresh-tmdb">>}

\* the routes that work on the show {id}
ShowRoutes ==
    {<<"GET", "/shows/{id}">>, <<"DELETE", "/shows/{id}">>,
     <<"POST", "/shows/{id}/toggle-status">>,
     <<"POST", "/shows/{id}/clear-ratings">>,
     <<"POST", "/shows/{id}/refresh-tmdb">>}

\* cookies that are not the digest of the password: none, an empty one, the
\* digest of another password, the password itself
BadCookies == {Nil, Some(""), Some(hashPassword("guess")), Some(Password)}

\* the {id} parameters: no number, the show added first, the next show
\* added to this library
PathIDs == {0, 1, 3}

\* the bodies of POST /shows
AddShowBodies ==
    {Nil,
     Some([tmdb_id |-> 0, media_type |-> <<"t", "v">>, status |-> ""]),
     Some([tmdb_id |-> 2, media_type |-> <<"f", "i", "l", "m">>,
           status |-> ""]),
     Some([tmdb_id |-> 2, media_type |-> <<"m", "o", "v", "i", "e">>,
           status |-> ""]),
     Some([tmdb_id |-> 2, media_type |-> <<" ", "t", "v">>,
           status |-> "watched"]),
     Some([tmdb_id |-> 9, media_type |-> <<"t", "v">>, status |-> "seen"])}

\* the bodies of POST /shows/{id}/ratings: ratings below, in and above 1..10
RatingsBodies ==
    {Nil,
     Some([bf_rating |-> Nil, gf_rating |-> Nil, bf_comment |-> Nil,
           gf_comment |-> Nil]),
     Some([bf_rating |-> Some(0), gf_rating |-> Nil, bf_comment |-> Nil,
           gf_comment |-> Nil]),
     Some([bf_rating |-> Some(11), gf_rating |-> Some(7), bf_comment |-> Nil,
           gf_comment |-> Nil]),
     Some([bf_rating |-> Nil, gf_rating |-> Some(-3),
           bf_comment |-> Some("x"), gf_comment |-> Nil])}

\* the bodies of POST /login
LoginBodies ==
    {Nil, Some([password |-> Password]), Some([password |-> "guess"]),
     Some([password |-> ""])}

\* the requests of the library specification: every route with the
\* password's cookie, and every protected route without it
LibraryRequests ==
    {[Request("GET", "/session") EXCEPT !.cookie = c] :
        c \in BadCookies \cup {Some(hashPassword(Password))}}
      \cup {[Request("POST", "/login") EXCEPT !.cookie = Nil, !.body = b] :
               b \in LoginBodies}
      \cup {Request("POST", "/logout"), Request("GET", "/genres"),
            Request("POST", "/export"), Request("POST", "/refresh-tmdb")}
      \cup {[Request("GET", "/shows") EXCEPT !.status = st, !.unrated = u] :
               st \in {"", "watched"}, u \in {"", "1"}}
      \cup {[Request("POST", "/shows") EXCEPT !.body = b] :
               b \in AddShowBodies}
      \cup {[Request(rt[1], rt[2]) EXCEPT !.id = id] :
               rt \in ShowRoutes, id \in PathIDs}
      \cup {[Request("POST", "/shows/{id}/ratings")
                 EXCEPT !.id = id, !.body = b] :
               id \in PathIDs, b \in RatingsBodies}
      \cup {[Request(rt[1], rt[2]) EXCEPT !.cookie = c, !.id = 1] :
               rt \in ProtectedRoutes, c \in {Nil, Some(hashPassword("guess"))}}
      \cup {[Request("DELETE", "/shows/{id}") EXCEPT !.cookie = c, !.id = 1] :
               c \in BadCookies}

(***************************************************************************)
(* Actions: one per handler                                                *)
(***************************************************************************)

\* the reference lists and the api their provider calls are recorded under
ListApis == [genres |-> "genre", countries |-> "countries",
             languages |-> "languages"]

\* nothing refreshed yet
NeverRefreshed ==
    [n \in DOMAIN ListApis |-> [okAt |-> Nil, failed |-> FALSE]]

\* the refreshes of list n that the request just answered made: after a
\* failed provider call the last attempt has failed, after calls that all
\* succeeded the list was refreshed at the time the cache now carries
RefreshOutcome(n, before, log, fetchedAt) ==
    LET attempts == SelectSeq(log, LAMBDA c : c.api = ListApis[n])
    IN  IF attempts = <<>> THEN before
        ELSE IF \E i \in 1..Len(attempts) : ~attempts[i].ok
        THEN [before EXCEPT !.failed = TRUE]
        ELSE [okAt |-> Some(fetchedAt), failed |-> FALSE]

\* MiddlewareRequireAuth turning the request away
Unauthorized ==
    /\ <<req.method, req.route>> \in ProtectedRoutes
    /\ resp = NoResponse
    /\ ~isAuthenticated(req)
    /\ resp' = [status |-> StatusUnauthorized,
                body   |-> [error |-> "unauthorized"]]
    /\ UNCHANGED <<catalog, library, genres, countries, languages, now, req,
                   calls, stmts, searched, refreshed, inserted, fItems, fOut,
                   mu, goroutines, stored>>

\* GET /search
GetSearch ==
    /\ req.method = "GET"
    /\ req.route = "/search"
    /\ resp = NoResponse
    /\ isAuthenticated(req)
    /\ \E fault \in Faults :
          \E out \in {getSearch(catalog, library, genres, now, req, fault)} :
              /\ resp' = Adapt(out.ret, out.written)
              /\ genres' = out.cache
              /\ calls' = out.log
              /\ stmts' = out.stmts
              /\ searched' = out.pageData
    /\ UNCHANGED <<catalog, library, countries, languages, now, req, refreshed,
                   inserted, fItems, fOut, mu, goroutines, stored>>

\* GET /search/genres
GetSearchGenres ==
    /\ req.method = "GET"
    /\ req.route = "/search/genres"
    /\ resp = NoResponse
    /\ isAuthenticated(req)
    /\ \E fault \in Faults :
          \E out \in {getSearchGenres(catalog, genres, now, fault)} :
              /\ resp' = Adapt(out.ret, out.written)
              /\ genres' = out.cache
              /\ calls' = out.log
    /\ UNCHANGED <<catalog, library, countries, languages, now, req, stmts,
                   searched, refreshed, inserted, fItems, fOut, mu, goroutines,
                   stored>>

\* GET /search/countries
GetSearchCountries ==
    /\ req.method = "GET"
    /\ req.route = "/search/countries"
    /\ resp = NoResponse
    /\ isAuthenticated(req)
    /\ \E fault \in Faults :
          \E out \in {getSearchList(
                           fetchCountryList([cat |-> catalog, query |-> "",
                                        mediaType |-> "", fault |-> fault],
                                       countries, now, <<>>))} :
              /\ resp' = Adapt(out.ret, out.written)
              /\ countries' = out.cache
              /\ calls' = out.log
    /\ UNCHANGED <<catalog, library, genres, languages, now, req, stmts,
                   searched, refreshed, inserted, fItems, fOut, mu, goroutines,
                   stored>>

\* GET /search/languages
GetSearchLanguages ==
    /\ req.method = "GET"
    /\ req.route = "/search/languages"
    /\ resp = NoResponse
    /\ isAuthenticated(req)
    /\ \E fault \in Faults :
          \E out \in {getSearchList(
                           fetchLanguageList([cat |-> catalog, query |-> "",
                                        mediaType |-> "", fault |-> fault],
                                       languages, now, <<>>))} :
              /\ resp' = Adapt(out.ret, out.written)
              /\ languages' = out.cache
              /\ calls' = out.log
    /\ UNCHANGED <<catalog, library, genres, countries, now, req, stmts,
                   searched, refreshed, inserted, fItems, fOut, mu, goroutines,
                   stored>>

\* GET /search/resolve
GetSearchResolve ==
    /\ req.method = "GET"
    /\ req.route = "/search/resolve"
    /\ resp = NoResponse
    /\ isAuthenticated(req)
    /\ \E fault \in Faults :
          \E out \in {getSearchResolve(catalog, req, fault)} :
              /\ resp' = Adapt(out.ret, out.written)
              /\ calls' = out.log
    /\ UNCHANGED <<catalog, library, genres, countries, languages, now, req,
                   stmts, searched, refreshed, inserted, fItems, fOut, mu,
                   goroutines, stored>>

\* the request is for this route and has not been answered
Routed(method, route) ==
    /\ req.method = method
    /\ req.route = route
    /\ resp = NoResponse

\* what a handler of the session routes leaves: its response
SessionStep(out) ==
    /\ resp' = Adapt(out.ret, out.written)
    /\ UNCHANGED <<catalog, library, genres, countries, languages, now, req,
                   calls, stmts, searched, refreshed, inserted, fItems, fOut,
                   mu, goroutines, stored>>

\* what a handler of the library routes leaves: its response, the library
\* and the calls and statements it made
LibraryStep(out) ==
    /\ resp' = Adapt(out.ret, out.written)
    /\ library' = out.lib
    /\ calls' = out.log
    /\ stmts' = out.stmts
    /\ inserted' = {s.ID : s \in out.lib.shows} \ {s.ID : s \in library.shows}
    /\ UNCHANGED <<catalog, genres, countries, languages, now, req, searched,
                   refreshed, fItems, fOut, mu, goroutines, stored>>

\* GET /session
GetSession ==
    /\ Routed("GET", "/session")
    /\ SessionStep(getSession(req))

\* POST /login
PostLogin ==
    /\ Routed("POST", "/login")
    /\ SessionStep(postLogin(req))

\* POST /logout
PostLogout ==
    /\ Routed("POST", "/logout")
    /\ isAuthenticated(req)
    /\ SessionStep(postLogout(req))

\* GET /shows
GetShows ==
    /\ Routed("GET", "/shows")
    /\ isAuthenticated(req)
    /\ \E fault \in Faults :
          \E out \in {getShows(library, req, fault)} : LibraryStep(out)

\* POST /shows, as long as the table's ids stay within MaxShowID
PostShows ==
    /\ Routed("POST", "/shows")
    /\ isAuthenticated(req)
    /\ \E fault \in Faults :
          \E out \in {postShows(catalog, library, now, req, fault)} :
              /\ out.lib.seq <= MaxShowID
              /\ LibraryStep(out)

\* GET /shows/{id}
GetShowByID ==
    /\ Routed("GET", "/shows/{id}")
    /\ isAuthenticated(req)
    /\ \E fault \in Faults :
          \E out \in {getShow(library, req, fault)} : LibraryStep(out)

\* DELETE /shows/{id}
DeleteShowByID ==
    /\ Routed("DELETE", "/shows/{id}")
    /\ isAuthenticated(req)
    /\ \E fault \in Faults :
          \E out \in {deleteShow(library, req, fault)} : LibraryStep(out)

\* POST /shows/{id}/ratings
PostShowRatings ==
    /\ Routed("POST", "/shows/{id}/ratings")
    /\ isAuthenticated(req)
    /\ \E fault \in Faults :
          \E out \in {postShowRatings(library, now, req, fault)} :
              LibraryStep(out)

\* POST /shows/{id}/toggle-status
PostShowToggleStatus ==
    /\ Routed("POST", "/shows/{id}/toggle-status")
    /\ isAuthenticated(req)
    /\ \E fault \in Faults :
          \E out \in {postShowToggleStatus(library, now, req, fault)} :
              LibraryStep(out)

\* POST /shows/{id}/clear-ratings
PostShowClearRatings ==
    /\ Routed("POST", "/shows/{id}/clear-ratings")
    /\ isAuthenticated(req)
    /\ \E fault \in Faults :
          \E out \in {postShowClearRatings(library, now, req, fault)} :
              LibraryStep(out)

\* POST /shows/{id}/refresh-tmdb
PostShowRefreshTMDB ==
    /\ Routed("POST", "/shows/{id}/refresh-tmdb")
    /\ isAuthenticated(req)
    /\ \E fault \in Faults :
          \E out \in {postShowRefreshTMDB(catalog, library, now, req, fault)} :
              LibraryStep(out)

\* GET /genres
GetGenres ==
    /\ Routed("GET", "/genres")
    /\ isAuthenticated(req)
    /\ \E fault \in Faults :
          \E out \in {getGenres(library, fault)} : LibraryStep(out)

\* POST /export
PostExport ==
    /\ Routed("POST", "/export")
    /\ isAuthenticated(req)
    /\ \E fault \in Faults :
          \E out \in {postExport(library, fault)} : LibraryStep(out)

\* POST /refresh-tmdb
PostRefreshTMDBAll ==
    /\ Routed("POST", "/refresh-tmdb")
    /\ isAuthenticated(req)
    /\ \E fault \in Faults :
          \E out \in {postRefreshTMDBAll(catalog, library, now, fault)} :
              LibraryStep(out)

\* what the server keeps when the response has gone out
ResponseSent ==
    /\ resp # NoResponse
    /\ resp' = NoResponse
    /\ calls' = <<>>
    /\ stmts' = <<>>
    /\ searched' = NoPageData
    /\ inserted' = {}
    /\ UNCHANGED <<catalog, library, genres, countries, languages, now, fItems,
                   fOut, mu, goroutines, stored>>

\* the refresh history once the request just answered is over
RefreshHistory ==
    [genres    |-> RefreshOutcome("genres", refreshed.genres, calls,
                                  genres.fetchedAt),
     countries |-> RefreshOutcome("countries", refreshed.countries, calls,
                                  countries.fetchedAt),
     languages |-> RefreshOutcome("languages", refreshed.languages, calls,
                                  languages.fetchedAt)]

\* the response has gone out and the next request comes in
Receive ==
    /\ ResponseSent
    /\ req' \in Requests
    /\ UNCHANGED refreshed

\* the same among the requests that read a reference list, with the
\* history of the refreshes kept
ReceiveRefresh ==
    /\ ResponseSent
    /\ req' \in RefreshRequests
    /\ refreshed' = RefreshHistory

\* the same among the requests of the library specification
ReceiveLibrary ==
    /\ ResponseSent
    /\ req' \in LibraryRequests
    /\ UNCHANGED refreshed

\* time passes between two requests
Tick ==
    /\ resp = NoResponse
    /\ now + TickHours <= MaxClock
    /\ now' = now + TickHours
    /\ UNCHANGED <<catalog, library, genres, countries, languages, req, resp,
                   calls, stmts, searched, refreshed, inserted, fItems, fOut,
                   mu, goroutines, stored>>

(***************************************************************************)
(* SpecSearch: one search request against every provider content           *)
(***************************************************************************)

InitSearch ==
    /\ catalog \in {c \in Catalogs : c.refs = "full" /\ c.tv <= c.movie}
    /\ library = Library0
    /\ genres = EmptyGenreCache
    /\ countries = EmptyListCache
    /\ languages = EmptyListCache
    /\ now = 0
    /\ req \in SearchRequests
    /\ resp = NoResponse
    /\ calls = <<>>
    /\ stmts = <<>>
    /\ searched = NoPageData
    /\ refreshed = NeverRefreshed
    /\ inserted = {}
    /\ mu = Unlocked
    /\ goroutines = NoGoroutines
    /\ stored = NothingStored
    /\ fItems = <<>>
    /\ fOut = <<>>

NextSearch == GetSearch

SpecSearch == InitSearch /\ [][NextSearch]_vars

(***************************************************************************)
(* Spec: the server answering one request after another                    *)
(***************************************************************************)

Init ==
    /\ catalog \in {c \in Catalogs : c.tv = SmallUniverse}
    /\ library = Library0
    /\ genres = EmptyGenreCache
    /\ countries = EmptyListCache
    /\ languages = EmptyListCache
    /\ now = 0
    /\ req \in Requests
    /\ resp = NoResponse
    /\ calls = <<>>
    /\ stmts = <<>>
    /\ searched = NoPageData
    /\ refreshed = NeverRefreshed
    /\ inserted = {}
    /\ mu = Unlocked
    /\ goroutines = NoGoroutines
    /\ stored = NothingStored
    /\ fItems = <<>>
    /\ fOut = <<>>

Next ==
    \/ GetSearch
    \/ GetSearchGenres
    \/ GetSearchCountries
    \/ GetSearchLanguages
    \/ GetSearchResolve
    \/ Receive
    \/ Tick

Spec == Init /\ [][Next]_vars

(***************************************************************************)
(* SpecRefresh: the reference-list caches over time, with the history of   *)
(* their refreshes                                                         *)
(***************************************************************************)

InitRefresh ==
    /\ catalog \in {c \in Catalogs : c.tv = SmallUniverse}
    /\ library = Library0
    /\ genres = EmptyGenreCache
    /\ countries = EmptyListCache
    /\ languages = EmptyListCache
    /\ now = 0
    /\ req \in RefreshRequests
    /\ resp = NoResponse
    /\ calls = <<>>
    /\ stmts = <<>>
    /\ searched = NoPageData
    /\ refreshed = NeverRefreshed
    /\ inserted = {}
    /\ mu = Unlocked
    /\ goroutines = NoGoroutines
    /\ stored = NothingStored
    /\ fItems = <<>>
    /\ fOut = <<>>

NextRefresh ==
    \/ GetSearch
    \/ GetSearchGenres
    \/ GetSearchCountries
    \/ GetSearchLanguages
    \/ ReceiveRefresh
    \/ Tick

SpecRefresh == InitRefresh /\ [][NextRefresh]_vars

(***************************************************************************)
(* SpecLibrary: the session and library routes, one request after another, *)
(* with and without the password's cookie                                  *)
(***************************************************************************)

InitLibrary ==
    /\ catalog = [movie |-> SmallUniverse, tv |-> SmallUniverse,
                  refs |-> "full"]
    /\ library = Library0
    /\ genres = EmptyGenreCache
    /\ countries = EmptyListCache
    /\ languages = EmptyListCache
    /\ now = 0
    /\ req \in LibraryRequests
    /\ resp = NoResponse
    /\ calls = <<>>
    /\ stmts = <<>>
    /\ searched = NoPageData
    /\ refreshed = NeverRefreshed
    /\ inserted = {}
    /\ mu = Unlocked
    /\ goroutines = NoGoroutines
    /\ stored = NothingStored
    /\ fItems = <<>>
    /\ fOut = <<>>

NextLibrary ==
    \/ Unauthorized
    \/ GetSession
    \/ PostLogin
    \/ PostLogout
    \/ GetShows
    \/ PostShows
    \/ GetShowByID
    \/ DeleteShowByID
    \/ PostShowRatings
    \/ PostShowToggleStatus
    \/ PostShowClearRatings
    \/ PostShowRefreshTMDB
    \/ GetGenres
    \/ PostExport
    \/ PostRefreshTMDBAll
    \/ ReceiveLibrary

SpecLibrary == InitLibrary /\ [][NextLibrary]_vars

(***************************************************************************)
(* SpecUpsert: shows added, rated and refreshed one request after          *)
(* another, while time passes                                              *)
(***************************************************************************)

UpsertRoutes ==
    {<<"POST", "/shows">>, <<"POST", "/shows/{id}/ratings">>,
     <<"POST", "/shows/{id}/refresh-tmdb">>}

\* the well-formed requests of these routes that carry the password's cookie
UpsertRequests ==
    {r \in LibraryRequests :
        /\ <<r.method, r.route>> \in UpsertRoutes
        /\ isAuthenticated(r)
        /\ r.route = "/shows" => r.body.ok /\ r.body.val.tmdb_id # 0
        /\ r.route # "/shows" => r.id # 0
        /\ r.route = "/shows/{id}/ratings" =>
              r.body.ok /\ (r.body.val.bf_rating.ok \/ r.body.val.gf_rating.ok)}

InitUpsert ==
    /\ catalog = [movie |-> SmallUniverse, tv |-> SmallUniverse,
                  refs |-> "full"]
    /\ library = Library0
    /\ genres = EmptyGenreCache
    /\ countries = EmptyListCache
    /\ languages = EmptyListCache
    /\ now = 0
    /\ req \in UpsertRequests
    /\ resp = NoResponse
    /\ calls = <<>>
    /\ stmts = <<>>
    /\ searched = NoPageData
    /\ refreshed = NeverRefreshed
    /\ inserted = {}
    /\ mu = Unlocked
    /\ goroutines = NoGoroutines
    /\ stored = NothingStored
    /\ fItems = <<>>
    /\ fOut = <<>>

ReceiveUpsert ==
    /\ ResponseSent
    /\ req' \in UpsertRequests
    /\ UNCHANGED refreshed

NextUpsert ==
    \/ PostShows
    \/ PostShowRatings
    \/ PostShowRefreshTMDB
    \/ ReceiveUpsert
    \/ Tick

SpecUpsert == InitUpsert /\ [][NextUpsert]_vars

(***************************************************************************)
(* SpecFilter: applySearchFilters on its own                               *)
(***************************************************************************)

KindOf(i) == IF i % 2 = 1 THEN "movie" ELSE "tv"

\* search results of both kinds, as fetchSearch builds them
Pool ==
    [i \in 1..PoolSize |->
        fetchSearchResults(<<RawItem(KindOf(i), i)>>, KindOf(i))[1]]

FilterRequests ==
    [route             : {"/search"},
     method            : {"GET"},
     cookie            : {Some(hashPassword(Password))},
     id                : {0},
     body              : {Nil},
     status            : {""},
     unrated           : {""},
     tmdb_id           : {<<>>},
     q                 : {""},
     media_type        : {"", "movie", "tv"},
     year_from         : {<<>>, <<"2", "0", "0", "0">>},
     year_to           : {<<>>, <<"2", "0", "0", "5">>},
     min_rating        : {<<>>, <<"7", ".", "5">>},
     min_votes         : {<<>>, <<"1", "0", "0">>},
     sort              : {""},
     genres            : {<<>>, <<"1">>, <<"1", ",", "2">>, <<"1", "|", "2">>,
                          <<"2", "|", "3", "|">>},
     origin_country    : {<<>>, <<"u", "s">>},
     original_language : {<<>>, <<"E", "N">>},
     page              : {<<>>}]

NotApplied == "not applied"

InitFilter ==
    /\ catalog = [movie |-> 0, tv |-> 0, refs |-> "empty"]
    /\ library = EmptyLibrary
    /\ genres = EmptyGenreCache
    /\ countries = EmptyListCache
    /\ languages = EmptyListCache
    /\ now = 0
    /\ req \in FilterRequests
    /\ resp = NoResponse
    /\ calls = <<>>
    /\ stmts = <<>>
    /\ searched = NoPageData
    /\ refreshed = NeverRefreshed
    /\ inserted = {}
    /\ mu = Unlocked
    /\ goroutines = NoGoroutines
    /\ stored = NothingStored
    /\ \E a \in 1..PoolSize, n \in 0..MaxItems :
          /\ a + n - 1 <= PoolSize
          /\ fItems = SubSeq(Pool, a, a + n - 1)
    /\ fOut = NotApplied

\* the filters the handler derives from the request in req
FiltersOf(r) == searchFiltersFromRequest(parseSearchRequest(r))

ApplyFilter ==
    /\ fOut = NotApplied
    /\ fOut' = applySearchFilters(fItems, FiltersOf(req))
    /\ UNCHANGED <<catalog, library, genres, countries, languages, now, req,
                   resp, calls, stmts, searched, refreshed, inserted, fItems,
                   mu, goroutines, stored>>

SpecFilter == InitFilter /\ [][ApplyFilter]_vars

(***************************************************************************)
(* SpecSort: applySearchSort on its own                                    *)
(***************************************************************************)

SortRequests ==
    {[BlankRequest EXCEPT !.route = "/search", !.q = "q",
                          !.media_type = "movie", !.sort = key] :
        key \in {"", "rating", "votes", "year", "title"}}

\* the lists of up to MaxItems different pool items, in every order
SortLists ==
    LET picks == UNION {[1..n -> 1..PoolSize] : n \in 0..MaxItems}
        n(p)  == Cardinality(DOMAIN p)
    IN  {SubSeq([k \in 1..n(p) |-> Pool[p[k]]], 1, n(p)) :
            p \in {q \in picks : \A i, j \in DOMAIN q : q[i] = q[j] => i = j}}

InitSort ==
    /\ catalog = [movie |-> 0, tv |-> 0, refs |-> "empty"]
    /\ library = EmptyLibrary
    /\ genres = EmptyGenreCache
    /\ countries = EmptyListCache
    /\ languages = EmptyListCache
    /\ now = 0
    /\ req \in SortRequests
    /\ resp = NoResponse
    /\ calls = <<>>
    /\ stmts = <<>>
    /\ searched = NoPageData
    /\ refreshed = NeverRefreshed
    /\ inserted = {}
    /\ mu = Unlocked
    /\ goroutines = NoGoroutines
    /\ stored = NothingStored
    /\ fItems \in SortLists
    /\ fOut = NotApplied

\* applySearchSort as searchWithFilterPaging calls it
ApplySort ==
    /\ fOut = NotApplied
    /\ fOut' = SubSeq(applySearchSort(fItems, FiltersOf(req).Sort, FALSE),
                      1, Len(fItems))
    /\ UNCHANGED <<catalog, library, genres, countries, languages, now, req,
                   resp, calls, stmts, searched, refreshed, inserted, fItems,
                   mu, goroutines, stored>>

SpecSort == InitSort /\ [][ApplySort]_vars

(***************************************************************************)
(* SpecWindow: one search request, then paginateSearchResults on its       *)
(* accumulator at offsets searchWithFilterPaging does not pass             *)
(***************************************************************************)

\* offsets below, inside and behind every accumulator
Offsets == {-perPage, -1, 0, 1, perPage, MaxUniverse, MaxUniverse + 1}

NotWindowed == [applied |-> FALSE, offset |-> 0, items |-> <<>>]

InitWindow ==
    /\ catalog \in {c \in Catalogs : c.refs = "full" /\ c.tv <= c.movie}
    /\ library = Library0
    /\ genres = EmptyGenreCache
    /\ countries = EmptyListCache
    /\ languages = EmptyListCache
    /\ now = 0
    /\ req \in SearchRequests
    /\ resp = NoResponse
    /\ calls = <<>>
    /\ stmts = <<>>
    /\ searched = NoPageData
    /\ refreshed = NeverRefreshed
    /\ inserted = {}
    /\ mu = Unlocked
    /\ goroutines = NoGoroutines
    /\ stored = NothingStored
    /\ fItems = <<>>
    /\ fOut = NotWindowed

\* paginateSearchResults on the accumulator the search ended with
ApplyWindow ==
    /\ fOut = NotWindowed
    /\ req.route = "/search"
    /\ resp # NoResponse
    /\ resp.status = StatusOK
    /\ \E offset \in Offsets :
          fOut' = [applied |-> TRUE, offset |-> offset,
                   items   |-> paginateSearchResults(searched.collected,
                                                     offset, perPage)]
    /\ UNCHANGED <<catalog, library, genres, countries, languages, now, req,
                   resp, calls, stmts, searched, refreshed, inserted, fItems,
                   mu, goroutines, stored>>

NextWindow ==
    \/ GetSearch
    \/ ApplyWindow

SpecWindow == InitWindow /\ [][NextWindow]_vars

(***************************************************************************)
(* SpecCache: requests served at once reading and refreshing the           *)
(* reference-list caches, one step of one goroutine at a time              *)
(***************************************************************************)

Goroutines == {"g1", "g2"}

GenreOps == {"fetchGenreLists", "genreMaps"}
ListOps == {"fetchCountryList", "fetchLanguageList"}

\* sync.RWMutex: RLock waits for the writer, Lock for the writer and readers
CanRLock(m) == m.w = ""
CanLock(m) == m.w = "" /\ m.r = {}
RLock(m, g) == [m EXCEPT !.r = @ \cup {g}]
RUnlock(m, g) == [m EXCEPT !.r = @ \ {g}]
Lock(m, g) == [m EXCEPT !.w = g, !.last = g]
Unlock(m, g) == [m EXCEPT !.w = ""]

\* the cache fields a goroutine has read since it took the read lock, each
\* with the refresh that had assigned it; "" for a field not read
NoneSeen ==
    [movieList |-> "", tvList |-> "", movie |-> "", tv |-> "",
     fetchedAt |-> "", items |-> ""]

\* a goroutine about to run the cache function op for its request; hit is
\* the outcome of its latest freshness test
Entering(op) ==
    [op    |-> op,
     pc    |-> IF op = "genreMaps" THEN "mRLock" ELSE "RLock",
     seen  |-> NoneSeen,
     hit   |-> TRUE,
     movie |-> Nil, tv |-> Nil, movieMap |-> Nil, tvMap |-> Nil,
     items |-> Nil,
     err   |-> FALSE]

\* the cache a function works on
CacheName(op) ==
    IF op \in GenreOps THEN "genres"
    ELSE IF op = "fetchCountryList" THEN "countries" ELSE "languages"

ListCache(c) == IF c = "countries" THEN countries ELSE languages

\* the provider as a goroutine's call finds it: the call fails or not, and
\* at most one call fails
EnvOf(fails) ==
    [cat |-> catalog, query |-> "", mediaType |-> "",
     fault |-> IF fails /\ \A k \in 1..Len(calls) : calls[k].ok
               THEN [call |-> Len(calls) + 1, db |-> 0] ELSE NoFault]

\* the read lock given back on the hit path and on the miss path
leaveRead_hitOnly(m, g, hit) == IF hit THEN RUnlock(m, g) ELSE m

\* mu.RUnlock() of fetchGenreLists, genreMaps, fetchCountryList and
\* fetchLanguageList, on the hit path and on the miss path
leaveRead(m, g, hit) == RUnlock(m, g)

\* the refresh taking and giving back the read lock around its assignments
refreshSection_shared(m, g, enter) ==
    IF enter
    THEN [can |-> CanRLock(m), mu |-> [RLock(m, g) EXCEPT !.last = g]]
    ELSE [can |-> TRUE, mu |-> RUnlock(m, g)]

\* mu.Lock() before and mu.Unlock() after the assignments of a refresh
refreshSection(m, g, enter) ==
    IF enter
    THEN [can |-> CanLock(m), mu |-> Lock(m, g)]
    ELSE [can |-> TRUE, mu |-> Unlock(m, g)]

\* the variables no cache function touches
CacheFrame ==
    UNCHANGED <<library, req, resp, stmts, searched, refreshed, inserted,
                fItems, fOut>>

\* h.genres.mu.RLock() of fetchGenreLists and of genreMaps (both of them)
GenresRLock ==
    \E g \in DOMAIN goroutines :
        LET gr == goroutines[g]
        IN  /\ gr.op \in GenreOps
            /\ gr.pc \in {"RLock", "mRLock", "rRLock"}
            /\ CanRLock(mu.genres)
            /\ mu' = [mu EXCEPT !.genres = RLock(@, g)]
            /\ goroutines' =
                  [goroutines EXCEPT ![g] =
                      [gr EXCEPT !.seen = NoneSeen,
                                 !.pc = CASE gr.pc = "RLock" -> "check"
                                          [] gr.pc = "mRLock" -> "mCheck"
                                          [] OTHER -> "rMovie"]]
            /\ UNCHANGED <<catalog, genres, countries, languages, now, calls,
                           stored>>
            /\ CacheFrame

\* the freshness test of fetchGenreLists (on the lists) and of genreMaps (on
\* the maps), left to right
GenresCheck ==
    \E g \in DOMAIN goroutines :
        LET gr     == goroutines[g]
            lists  == gr.pc = "check"
            f1     == IF lists THEN "movieList" ELSE "movie"
            f2     == IF lists THEN "tvList" ELSE "tv"
            both   == genres[f1].ok /\ genres[f2].ok
            hit    == both /\ now - genres.fetchedAt < cacheTTL
            seen   == [NoneSeen EXCEPT
                          ![f1] = stored.genres[f1],
                          ![f2] = IF genres[f1].ok THEN stored.genres[f2]
                                  ELSE "",
                          !.fetchedAt = IF both THEN stored.genres.fetchedAt
                                        ELSE ""]
        IN  /\ gr.op \in GenreOps
            /\ gr.pc \in {"check", "mCheck"}
            /\ goroutines' =
                  [goroutines EXCEPT ![g] =
                      [gr EXCEPT !.seen = seen,
                                 !.hit = hit,
                                 !.pc = IF lists
                                        THEN (IF hit THEN "copyMovie"
                                              ELSE "miss")
                                        ELSE (IF hit THEN "mMovie"
                                              ELSE "mMiss")]]
            /\ UNCHANGED <<catalog, genres, countries, languages, now, calls,
                           mu, stored>>
            /\ CacheFrame

\* one field of the genre cache read into a local: the copies of
\* fetchGenreLists, the map reads of genreMaps before and after its refresh
GenresRead ==
    \E g \in DOMAIN goroutines :
        LET gr    == goroutines[g]
            field == CASE gr.pc = "copyMovie" -> "movieList"
                       [] gr.pc = "copyTv" -> "tvList"
                       [] gr.pc \in {"mMovie", "rMovie"} -> "movie"
                       [] OTHER -> "tv"
            local == CASE gr.pc = "copyMovie" -> "movie"
                       [] gr.pc = "copyTv" -> "tv"
                       [] gr.pc \in {"mMovie", "rMovie"} -> "movieMap"
                       [] OTHER -> "tvMap"
            next  == CASE gr.pc = "copyMovie" -> "copyTv"
                       [] gr.pc = "copyTv" -> "RUnlock"
                       [] gr.pc = "mMovie" -> "mTv"
                       [] gr.pc = "mTv" -> "mRUnlock"
                       [] gr.pc = "rMovie" -> "rTv"
                       [] OTHER -> "rRUnlock"
        IN  /\ gr.op \in GenreOps
            /\ gr.pc \in {"copyMovie", "copyTv", "mMovie", "mTv", "rMovie",
                          "rTv"}
            /\ goroutines' =
                  [goroutines EXCEPT ![g] =
                      [gr EXCEPT ![local] = genres[field],
                                 !.seen[field] = stored.genres[field],
                                 !.pc = next]]
            /\ UNCHANGED <<catalog, genres, countries, languages, now, calls,
                           mu, stored>>
            /\ CacheFrame

\* h.genres.mu.RUnlock(): after a hit the function returns, after a miss
\* fetchGenreLists goes on to the provider and genreMaps to fetchGenreLists
GenresRUnlock ==
    \E g \in DOMAIN goroutines :
        LET gr   == goroutines[g]
            hit  == gr.pc \in {"RUnlock", "mRUnlock", "rRUnlock"}
            next == CASE gr.pc = "miss" -> "fetchingMovie"
                      [] gr.pc = "mMiss" -> "RLock"
                      [] gr.pc = "RUnlock" /\ gr.op = "genreMaps" -> "rRLock"
                      [] OTHER -> "done"
        IN  /\ gr.op \in GenreOps
            /\ gr.pc \in {"RUnlock", "miss", "mRUnlock", "mMiss", "rRUnlock"}
            /\ mu' = [mu EXCEPT !.genres = leaveRead(@, g, hit)]
            /\ goroutines' = [goroutines EXCEPT ![g] = [gr EXCEPT !.pc = next]]
            /\ UNCHANGED <<catalog, genres, countries, languages, now, calls,
                           stored>>
            /\ CacheFrame

\* h.tmdb.FetchGenres answers: "movie" first, then "tv"; an error ends
\* fetchGenreLists, and genreMaps returns two nil maps for it
GenresFetched ==
    \E g \in DOMAIN goroutines, fails \in BOOLEAN :
        /\ goroutines[g].op \in GenreOps
        /\ goroutines[g].pc \in {"fetchingMovie", "fetchingTv"}
        /\ \E kind \in {IF goroutines[g].pc = "fetchingMovie" THEN "movie"
                        ELSE "tv"} :
              \E got \in {FetchGenres(EnvOf(fails), kind, calls)} :
                 /\ calls' = got.log
                 /\ goroutines' =
                       [goroutines EXCEPT ![g] =
                           IF got.err
                           THEN [@ EXCEPT !.movie = Nil, !.tv = Nil,
                                          !.err = goroutines[g].op
                                                     = "fetchGenreLists",
                                          !.pc = "done"]
                           ELSE [@ EXCEPT ![kind] = Some(got.list),
                                          !.pc = IF kind = "movie"
                                                 THEN "fetchingTv"
                                                 ELSE "Lock"]]
        /\ UNCHANGED <<catalog, genres, countries, languages, now, mu,
                       stored>>
        /\ CacheFrame

\* h.genres.mu.Lock()
GenresLock ==
    \E g \in DOMAIN goroutines :
        LET gr  == goroutines[g]
            sec == refreshSection(mu.genres, g, TRUE)
        IN  /\ gr.op \in GenreOps
            /\ gr.pc = "Lock"
            /\ sec.can
            /\ mu' = [mu EXCEPT !.genres = sec.mu]
            /\ goroutines' =
                  [goroutines EXCEPT ![g] = [gr EXCEPT !.pc = "storeMovieList"]]
            /\ UNCHANGED <<catalog, genres, countries, languages, now, calls,
                           stored>>
            /\ CacheFrame

\* the five assignments of fetchGenreLists to the cache, one at a time
GenresStore ==
    \E g \in DOMAIN goroutines :
        LET gr    == goroutines[g]
            f     == CASE gr.pc = "storeMovieList" -> "movieList"
                       [] gr.pc = "storeTvList" -> "tvList"
                       [] gr.pc = "storeMovie" -> "movie"
                       [] gr.pc = "storeTv" -> "tv"
                       [] OTHER -> "fetchedAt"
            value == CASE f = "movieList" -> CopySlice(gr.movie.val)
                       [] f = "tvList" -> CopySlice(gr.tv.val)
                       [] f = "movie" -> Some(GenreMap(gr.movie.val))
                       [] f = "tv" -> Some(GenreMap(gr.tv.val))
                       [] OTHER -> now
            next  == CASE f = "movieList" -> "storeTvList"
                       [] f = "tvList" -> "storeMovie"
                       [] f = "movie" -> "storeTv"
                       [] f = "tv" -> "storeFetchedAt"
                       [] OTHER -> "Unlock"
        IN  /\ gr.op \in GenreOps
            /\ gr.pc \in {"storeMovieList", "storeTvList", "storeMovie",
                          "storeTv", "storeFetchedAt"}
            /\ genres' = [genres EXCEPT ![f] = value]
            /\ stored' = [stored EXCEPT !.genres[f] = g]
            /\ goroutines' = [goroutines EXCEPT ![g] = [gr EXCEPT !.pc = next]]
            /\ UNCHANGED <<catalog, countries, languages, now, calls, mu>>
            /\ CacheFrame

\* h.genres.mu.Unlock(); fetchGenreLists returns the fetched lists
GenresUnlock ==
    \E g \in DOMAIN goroutines :
        LET gr == goroutines[g]
        IN  /\ gr.op \in GenreOps
            /\ gr.pc = "Unlock"
            /\ mu' = [mu EXCEPT !.genres = refreshSection(@, g, FALSE).mu]
            /\ goroutines' =
                  [goroutines EXCEPT ![g] =
                      [gr EXCEPT !.pc = IF gr.op = "genreMaps" THEN "rRLock"
                                        ELSE "done"]]
            /\ UNCHANGED <<catalog, genres, countries, languages, now, calls,
                           stored>>
            /\ CacheFrame

\* the caches after one of the two list caches became cache
ListCaches(c, cache) ==
    /\ countries' = IF c = "countries" THEN cache ELSE countries
    /\ languages' = IF c = "languages" THEN cache ELSE languages

\* mu.RLock() of fetchCountryList and fetchLanguageList
ListRLock ==
    \E g \in DOMAIN goroutines :
        LET gr == goroutines[g]
            c  == CacheName(gr.op)
        IN  /\ gr.op \in ListOps
            /\ gr.pc = "RLock"
            /\ CanRLock(mu[c])
            /\ mu' = [mu EXCEPT ![c] = RLock(@, g)]
            /\ goroutines' =
                  [goroutines EXCEPT ![g] =
                      [gr EXCEPT !.seen = NoneSeen, !.pc = "check"]]
            /\ UNCHANGED <<catalog, genres, countries, languages, now, calls,
                           stored>>
            /\ CacheFrame

\* the freshness test of fetchCountryList and fetchLanguageList
ListCheck ==
    \E g \in DOMAIN goroutines :
        LET gr    == goroutines[g]
            c     == CacheName(gr.op)
            cache == ListCache(c)
            hit   == cache.items.ok /\ now - cache.fetchedAt < cacheTTL
        IN  /\ gr.op \in ListOps
            /\ gr.pc = "check"
            /\ goroutines' =
                  [goroutines EXCEPT ![g] =
                      [gr EXCEPT
                          !.seen = [NoneSeen EXCEPT
                                       !.items = stored[c].items,
                                       !.fetchedAt =
                                           IF cache.items.ok
                                           THEN stored[c].fetchedAt ELSE ""],
                          !.hit = hit,
                          !.pc = IF hit THEN "copy" ELSE "miss"]]
            /\ UNCHANGED <<catalog, genres, countries, languages, now, calls,
                           mu, stored>>
            /\ CacheFrame

\* the copy of the cached list that a hit returns
ListRead ==
    \E g \in DOMAIN goroutines :
        LET gr == goroutines[g]
            c  == CacheName(gr.op)
        IN  /\ gr.op \in ListOps
            /\ gr.pc = "copy"
            /\ goroutines' =
                  [goroutines EXCEPT ![g] =
                      [gr EXCEPT !.items = ListCache(c).items,
                                 !.seen.items = stored[c].items,
                                 !.pc = "RUnlock"]]
            /\ UNCHANGED <<catalog, genres, countries, languages, now, calls,
                           mu, stored>>
            /\ CacheFrame

\* mu.RUnlock(): a hit returns, a miss goes on to the provider
ListRUnlock ==
    \E g \in DOMAIN goroutines :
        LET gr == goroutines[g]
            c  == CacheName(gr.op)
        IN  /\ gr.op \in ListOps
            /\ gr.pc \in {"RUnlock", "miss"}
            /\ mu' = [mu EXCEPT ![c] = leaveRead(@, g, gr.pc = "RUnlock")]
            /\ goroutines' =
                  [goroutines EXCEPT ![g] =
                      [gr EXCEPT !.pc = IF gr.pc = "miss" THEN "fetching"
                                        ELSE "done"]]
            /\ UNCHANGED <<catalog, genres, countries, languages, now, calls,
                           stored>>
            /\ CacheFrame

\* what fetchCountryList and fetchLanguageList make of the provider's
\* answer before they lock: the entries kept, sorted by name
SortedLists ==
    [refs \in {"full", "empty"} |->
        LET env == [cat |-> [movie |-> 0, tv |-> 0, refs |-> refs],
                    query |-> "", mediaType |-> "", fault |-> NoFault]
        IN  [fetchCountryList  |->
                 fetchCountryList(env, EmptyListCache, 0, <<>>).list,
             fetchLanguageList |->
                 fetchLanguageList(env, EmptyListCache, 0, <<>>).list]]

\* h.tmdb.FetchCountries or FetchLanguages answers; the list is sorted
ListFetched ==
    \E g \in DOMAIN goroutines, fails \in BOOLEAN :
        /\ goroutines[g].op \in ListOps
        /\ goroutines[g].pc = "fetching"
        /\ \E got \in {IF goroutines[g].op = "fetchCountryList"
                       THEN FetchCountries(EnvOf(fails), calls)
                       ELSE FetchLanguages(EnvOf(fails), calls)} :
              /\ calls' = got.log
              /\ goroutines' =
                    [goroutines EXCEPT ![g] =
                        IF got.err
                        THEN [@ EXCEPT !.items = Nil, !.err = TRUE,
                                       !.pc = "done"]
                        ELSE [@ EXCEPT
                                 !.items = Some(SortedLists[catalog.refs]
                                                    [goroutines[g].op]),
                                 !.pc = "Lock"]]
        /\ UNCHANGED <<catalog, genres, countries, languages, now, mu,
                       stored>>
        /\ CacheFrame

\* mu.Lock() of fetchCountryList and fetchLanguageList
ListLock ==
    \E g \in DOMAIN goroutines :
        LET gr  == goroutines[g]
            c   == CacheName(gr.op)
            sec == refreshSection(mu[c], g, TRUE)
        IN  /\ gr.op \in ListOps
            /\ gr.pc = "Lock"
            /\ sec.can
            /\ mu' = [mu EXCEPT ![c] = sec.mu]
            /\ goroutines' =
                  [goroutines EXCEPT ![g] = [gr EXCEPT !.pc = "storeItems"]]
            /\ UNCHANGED <<catalog, genres, countries, languages, now, calls,
                           stored>>
            /\ CacheFrame

\* the two assignments of a list refresh to its cache, one at a time
ListStore ==
    \E g \in DOMAIN goroutines :
        LET gr    == goroutines[g]
            c     == CacheName(gr.op)
            items == gr.pc = "storeItems"
        IN  /\ gr.op \in ListOps
            /\ gr.pc \in {"storeItems", "storeFetchedAt"}
            /\ ListCaches(c, IF items
                             THEN [ListCache(c) EXCEPT
                                      !.items = CopySlice(gr.items.val)]
                             ELSE [ListCache(c) EXCEPT !.fetchedAt = now])
            /\ stored' = [stored EXCEPT
                             ![c][IF items THEN "items" ELSE "fetchedAt"] = g]
            /\ goroutines' =
                  [goroutines EXCEPT ![g] =
                      [gr EXCEPT !.pc = IF items THEN "storeFetchedAt"
                                        ELSE "Unlock"]]
            /\ UNCHANGED <<catalog, genres, now, calls, mu>>
            /\ CacheFrame

\* mu.Unlock(); the function returns the fetched list
ListUnlock ==
    \E g \in DOMAIN goroutines :
        LET gr == goroutines[g]
            c  == CacheName(gr.op)
        IN  /\ gr.op \in ListOps
            /\ gr.pc = "Unlock"
            /\ mu' = [mu EXCEPT ![c] = refreshSection(@, g, FALSE).mu]
            /\ goroutines' = [goroutines EXCEPT ![g] = [gr EXCEPT !.pc = "done"]]
            /\ UNCHANGED <<catalog, genres, countries, languages, now, calls,
                           stored>>
            /\ CacheFrame

\* the provider's reference lists change between two fetches
ProviderUpdate ==
    /\ goroutines # NoGoroutines
    /\ catalog' = [catalog EXCEPT
                      !.refs = IF @ = "full" THEN "empty" ELSE "full"]
    /\ UNCHANGED <<genres, countries, languages, now, calls, mu, goroutines,
                   stored>>
    /\ CacheFrame

\* what the goroutines run: functions of one and the same cache, and of
\* the assignments that differ in the goroutines' names only, one
Workloads ==
    LET rank == [fetchGenreLists |-> 1, genreMaps |-> 2,
                 fetchCountryList |-> 3, fetchLanguageList |-> 4]
        order == [g1 |-> 1, g2 |-> 2]
    IN  {ops \in [Goroutines -> GenreOps \cup ListOps] :
            /\ \A g, h \in Goroutines : CacheName(ops[g]) = CacheName(ops[h])
            /\ \A g, h \in Goroutines :
                   order[g] < order[h] => rank[ops[g]] <= rank[ops[h]]}

\* the caches as a request answered earlier, at hour 0, left them
WarmCaches ==
    LET env == [cat |-> [movie |-> 0, tv |-> 0, refs |-> "full"],
                query |-> "", mediaType |-> "", fault |-> NoFault]
    IN  [genres    |-> fetchGenreLists(env, EmptyGenreCache, 0, <<>>).cache,
         countries |-> fetchCountryList(env, EmptyListCache, 0, <<>>).cache,
         languages |-> fetchLanguageList(env, EmptyListCache, 0, <<>>).cache]

\* every cache field assigned by that earlier request
StoredEarlier ==
    [c \in DOMAIN NothingStored |->
        [f \in DOMAIN NothingStored[c] |-> "earlier"]]

InitCache ==
    /\ catalog = [movie |-> 0, tv |-> 0, refs |-> "full"]
    /\ library = EmptyLibrary
    /\ \E warm \in BOOLEAN :
          /\ genres = IF warm THEN WarmCaches.genres ELSE EmptyGenreCache
          /\ countries = IF warm THEN WarmCaches.countries ELSE EmptyListCache
          /\ languages = IF warm THEN WarmCaches.languages ELSE EmptyListCache
          /\ stored = IF warm THEN StoredEarlier ELSE NothingStored
    /\ now = 0
    /\ req = BlankRequest
    /\ resp = NoResponse
    /\ calls = <<>>
    /\ stmts = <<>>
    /\ searched = NoPageData
    /\ refreshed = NeverRefreshed
    /\ inserted = {}
    /\ mu = Unlocked
    /\ \E ops \in Workloads :
          goroutines = [g \in Goroutines |-> Entering(ops[g])]
    /\ fItems = <<>>
    /\ fOut = <<>>

\* one step of one goroutine
GoroutineStep ==
    \/ GenresRLock
    \/ GenresCheck
    \/ GenresRead
    \/ GenresRUnlock
    \/ GenresFetched
    \/ GenresLock
    \/ GenresStore
    \/ GenresUnlock
    \/ ListRLock
    \/ ListCheck
    \/ ListRead
    \/ ListRUnlock
    \/ ListFetched
    \/ ListLock
    \/ ListStore
    \/ ListUnlock

NextCache ==
    \/ GoroutineStep
    \/ ProviderUpdate
    \/ Tick

SpecCache == InitCache /\ [][NextCache]_vars

\* the same with the scheduler running a goroutine that can take a step,
\* and every provider call answered
SpecCacheLive == SpecCache /\ WF_vars(GoroutineStep)

(***************************************************************************)
(* SpecToggle: two toggle-status requests served at once, each by its own  *)
(* goroutine of net/http; the store runs one statement at a time           *)
(***************************************************************************)

\* the {id} parameters of the two requests: no number, the two shows
ToggleIDs == {0, 1, 2}

\* a request that postShowToggleStatus starts to serve
Toggling(id) ==
    [op |-> "postShowToggleStatus", pc |-> "idParam", id |-> id,
     status |-> "", code |-> 0, shown |-> ""]

\* the goroutine g leaves the handler with the error of the store
toggleFailed(g, err) ==
    [goroutines EXCEPT ![g].pc = "done", ![g].code = storeError(err).Status]

ToggleFrame ==
    UNCHANGED <<catalog, genres, countries, languages, now, req, resp, calls,
                stmts, searched, refreshed, inserted, fItems, fOut, mu, stored>>

\* idParam(r, "id")
ToggleIDParam ==
    \E g \in DOMAIN goroutines :
        /\ goroutines[g].pc = "idParam"
        /\ goroutines' =
              IF goroutines[g].id <= 0
              THEN [goroutines EXCEPT ![g].pc = "done",
                                      ![g].code = notFound("not found").Status]
              ELSE [goroutines EXCEPT ![g].pc = "GetShow"]
        /\ UNCHANGED library
        /\ ToggleFrame

\* show, err := h.store.GetShow(ctx, id)
ToggleGetShow ==
    \E g \in DOMAIN goroutines :
        /\ goroutines[g].pc = "GetShow"
        /\ \E got \in {GetShow(library, goroutines[g].id, <<>>, NoFault)} :
              goroutines' =
                 IF got.err # ErrNone THEN toggleFailed(g, got.err)
                 ELSE [goroutines EXCEPT ![g].pc = "UpdateStatus",
                                         ![g].status = got.show.val.Status]
        /\ UNCHANGED library
        /\ ToggleFrame

\* h.store.UpdateStatus(ctx, id, nextStatus(show.Status))
ToggleUpdateStatus ==
    \E g \in DOMAIN goroutines :
        /\ goroutines[g].pc = "UpdateStatus"
        /\ \E updated \in {UpdateStatus(library, goroutines[g].id,
                                        nextStatus(goroutines[g].status), now,
                                        <<>>, NoFault)} :
              /\ library' = updated.lib
              /\ goroutines' =
                    IF updated.err # ErrNone THEN toggleFailed(g, updated.err)
                    ELSE [goroutines EXCEPT ![g].pc = "GetUpdated"]
        /\ ToggleFrame

\* updated, err := h.store.GetShow(ctx, id) and writeJSON
ToggleGetUpdated ==
    \E g \in DOMAIN goroutines :
        /\ goroutines[g].pc = "GetUpdated"
        /\ \E got \in {GetShow(library, goroutines[g].id, <<>>, NoFault)} :
              goroutines' =
                 IF got.err # ErrNone THEN toggleFailed(g, got.err)
                 ELSE [goroutines EXCEPT ![g].pc = "done",
                                         ![g].code = StatusOK,
                                         ![g].shown = got.show.val.Status]
        /\ UNCHANGED library
        /\ ToggleFrame

InitToggle ==
    /\ catalog = [movie |-> 0, tv |-> 0, refs |-> "full"]
    /\ library = Library0
    /\ genres = EmptyGenreCache
    /\ countries = EmptyListCache
    /\ languages = EmptyListCache
    /\ now = 0
    /\ req = BlankRequest
    /\ resp = NoResponse
    /\ calls = <<>>
    /\ stmts = <<>>
    /\ searched = NoPageData
    /\ refreshed = NeverRefreshed
    /\ inserted = {}
    /\ mu = Unlocked
    /\ goroutines \in [Goroutines -> {Toggling(id) : id \in ToggleIDs}]
    /\ stored = NothingStored
    /\ fItems = <<>>
    /\ fOut = <<>>

NextToggle ==
    \/ ToggleIDParam
    \/ ToggleGetShow
    \/ ToggleUpdateStatus
    \/ ToggleGetUpdated
    \/ Tick

SpecToggle == InitToggle /\ [][NextToggle]_vars

(***************************************************************************)
(* SpecPaging: one text search, one provider fetch at a time, against a    *)
(* provider that reports any total_pages and any results on every page.    *)
(* The loop of searchWithFilterPaging reads of the collected results only  *)
(* their number, which is what the goroutine keeps here.                   *)
(***************************************************************************)

\* the total_pages a provider payload may carry
ReportedTotals == {0, 3, maxTotalPages, maxTotalPages + 1, 2 * maxTotalPages}

\* how many results of one provider page pass the filters: none, all
ResultCounts == {0, tmdbPageSize}

\* the page parameters: none, the third page
PagingPages == {<<>>, <<"3">>}

\* text searches of one media type
PagingRequests ==
    {[r EXCEPT !.page = p] :
        r \in {s \in SearchRequests :
                  /\ s.q = "q" /\ s.media_type = "movie"
                  /\ s.min_rating = <<"6">> /\ s.year_to = <<>>
                  /\ s.genres = <<>> /\ s.sort = "" /\ s.page = <<>>},
        p \in PagingPages}

\* getSearch about to call searchTMDB
Searching ==
    [op |-> "getSearch", pc |-> "searchTMDB", offset |-> 0, tmdbPage |-> 0,
     collected |-> 0, totalPages |-> 0, fetches |-> 0, err |-> FALSE]

\* the payload of a provider page that reports total pages in all
PayloadOf(page, total) ==
    [results |-> <<>>, page |-> page, total_pages |-> total,
     total_results |-> total * tmdbPageSize]

PagingFrame ==
    UNCHANGED <<catalog, library, countries, languages, now, req, resp, stmts,
                searched, refreshed, inserted, fItems, fOut, mu, stored>>

\* searchTMDB and searchWithFilterPaging down to the loop
PagingStart ==
    \E g \in DOMAIN goroutines :
        LET f0    == FiltersOf(req)
            page  == IF f0.Page < 1 THEN 1 ELSE f0.Page
            f     == [f0 EXCEPT !.Page = page]
            startFromFirst == ~isEmpty(f) \/ f.Sort # "relevance"
        IN  /\ goroutines[g].pc = "searchTMDB"
            /\ goroutines' =
                  [goroutines EXCEPT
                     ![g].pc = "loop",
                     ![g].offset = IF startFromFirst THEN (page - 1) * perPage
                                   ELSE ((page - 1) * perPage) % tmdbPageSize,
                     ![g].tmdbPage =
                         IF startFromFirst THEN 1
                         ELSE ((page - 1) * perPage) \div tmdbPageSize + 1,
                     ![g].totalPages = 1]
            /\ UNCHANGED <<genres, calls>>
            /\ PagingFrame

\* one turn of the loop: the fetch of provider page tmdbPage, its error
\* returned or its results collected, then the break or tmdbPage++
PagingFetch ==
    \E g \in DOMAIN goroutines :
        LET gr == goroutines[g]
        IN  /\ gr.pc = "loop"
            /\ gr.collected < gr.offset + perPage
            /\ \E fails \in BOOLEAN, total \in ReportedTotals,
                  n \in ResultCounts :
                  \E got \in {fetchSearch(PayloadOf(gr.tmdbPage, total),
                                          req.media_type, fails)} :
                      goroutines' =
                         [goroutines EXCEPT
                            ![g] =
                               IF got.err
                               THEN [gr EXCEPT !.pc = "done", !.err = TRUE,
                                               !.fetches = @ + 1]
                               ELSE [gr EXCEPT
                                       !.fetches = @ + 1,
                                       !.collected = @ + n,
                                       !.totalPages =
                                           IF got.data.TotalPages > 0
                                           THEN got.data.TotalPages ELSE @,
                                       !.tmdbPage =
                                           IF gr.tmdbPage >= got.data.TotalPages
                                              \/ got.data.TotalPages = 0
                                           THEN @ ELSE @ + 1,
                                       !.pc =
                                           IF gr.tmdbPage >= got.data.TotalPages
                                              \/ got.data.TotalPages = 0
                                           THEN "lookupInLibrary" ELSE @]]
            /\ UNCHANGED <<genres, calls>>
            /\ PagingFrame

\* the loop ends with the results it needs
PagingCollected ==
    \E g \in DOMAIN goroutines :
        /\ goroutines[g].pc = "loop"
        /\ ~(goroutines[g].collected < goroutines[g].offset + perPage)
        /\ goroutines' = [goroutines EXCEPT ![g].pc = "lookupInLibrary"]
        /\ UNCHANGED <<genres, calls>>
        /\ PagingFrame

\* getSearch after searchTMDB: lookupInLibrary, whose error is returned
PagingLookup ==
    \E g \in DOMAIN goroutines :
        /\ goroutines[g].pc = "lookupInLibrary"
        /\ \E fails \in BOOLEAN :
              goroutines' =
                 IF fails
                 THEN [goroutines EXCEPT ![g].pc = "done", ![g].err = TRUE]
                 ELSE [goroutines EXCEPT ![g].pc = "genreMaps"]
        /\ UNCHANGED <<genres, calls>>
        /\ PagingFrame

\* getSearch after the lookup: genreMaps, which fetches the two genre
\* lists when the cache does not answer, and the response
PagingGenreMaps ==
    \E g \in DOMAIN goroutines :
        /\ goroutines[g].pc = "genreMaps"
        /\ \E k \in 0..2 :
              \E maps \in {genreMaps([cat |-> catalog, query |-> "q",
                                      mediaType |-> "",
                                      fault |-> [call |-> k, db |-> 0]],
                                     genres, now, <<>>)} :
                  /\ genres' = maps.cache
                  /\ calls' = maps.log
        /\ goroutines' = [goroutines EXCEPT ![g].pc = "done"]
        /\ PagingFrame

InitPaging ==
    /\ catalog = [movie |-> 0, tv |-> 0, refs |-> "full"]
    /\ library = EmptyLibrary
    /\ genres \in {EmptyGenreCache, WarmCaches.genres}
    /\ countries = EmptyListCache
    /\ languages = EmptyListCache
    /\ now = 0
    /\ req \in PagingRequests
    /\ resp = NoResponse
    /\ calls = <<>>
    /\ stmts = <<>>
    /\ searched = NoPageData
    /\ refreshed = NeverRefreshed
    /\ inserted = {}
    /\ mu = Unlocked
    /\ goroutines = [g \in {"g1"} |-> Searching]
    /\ stored = NothingStored
    /\ fItems = <<>>
    /\ fOut = <<>>

NextPaging ==
    \/ PagingStart
    \/ PagingFetch
    \/ PagingCollected
    \/ PagingLookup
    \/ PagingGenreMaps

SpecPaging == InitPaging /\ [][NextPaging]_vars

\* the goroutine serving the request is scheduled until it returns
SpecPagingLive == SpecPaging /\ WF_vars(NextPaging)

(***************************************************************************)
(* SpecInput: one search request whose parameters may be malformed         *)
(***************************************************************************)

\* GET /search with media kinds and numeric filters that are absent, well
\* formed or malformed
InputRequests ==
    {[BlankRequest EXCEPT !.route = "/search", !.q = q, !.media_type = mt,
                          !.year_from = yf, !.year_to = yt,
                          !.min_rating = mr, !.min_votes = mv] :
        q  \in {"", "q"},
        mt \in {"", "movie", "film"},
        yf \in {<<>>, <<"x">>, <<"1", "9", "9", "0">>},
        yt \in {<<>>, <<"2", "0", "x">>},
        mr \in {<<>>, <<"7", ",", "5">>},
        mv \in {<<>>, <<" ", "1", "e", "2">>, <<"5">>}}

InitInput ==
    /\ catalog \in {c \in Catalogs : c.refs = "full" /\ c.tv = SmallUniverse}
    /\ library = Library0
    /\ genres = EmptyGenreCache
    /\ countries = EmptyListCache
    /\ languages = EmptyListCache
    /\ now = 0
    /\ req \in InputRequests
    /\ resp = NoResponse
    /\ calls = <<>>
    /\ stmts = <<>>
    /\ searched = NoPageData
    /\ refreshed = NeverRefreshed
    /\ inserted = {}
    /\ mu = Unlocked
    /\ goroutines = NoGoroutines
    /\ stored = NothingStored
    /\ fItems = <<>>
    /\ fOut = <<>>

NextInput == GetSearch

SpecInput == InitInput /\ [][NextInput]_vars

(***************************************************************************)
(* Properties                                                              *)
(***************************************************************************)

\* what the filter criteria ask of one item, stated criterion by criterion
Satisfies(item, f) ==
    LET itemGenres == Range(item.GenreIDs)
        wanted     == Range(f.GenreIDs)
        year       == ParseYear(item.Year)
    IN  /\ f.MediaType \in {"all", item.MediaType}
        /\ f.MinRating.ok => item.VoteAverage >= f.MinRating.val
        /\ f.MinVotes.ok => item.VoteCount >= f.MinVotes.val
        /\ f.OriginalLanguage # <<>> =>
              ToLower(item.OriginalLanguage) = ToLower(f.OriginalLanguage)
        /\ f.OriginCountry # <<>> =>
              \E c \in Range(item.OriginCountry) :
                  ToLower(c) = ToLower(f.OriginCountry)
        /\ (wanted # {} /\ f.GenreMode = "and") => wanted \subseteq itemGenres
        /\ (wanted # {} /\ f.GenreMode = "or") => wanted \cap itemGenres # {}
        /\ (f.YearFrom.ok \/ f.YearTo.ok) => year.ok
        /\ f.YearFrom.ok => year.val >= f.YearFrom.val
        /\ f.YearTo.ok => year.val <= f.YearTo.val

\* C7: applySearchFilters returns exactly the input items that satisfy every
\* active criterion (kind, inclusive rating and vote bounds, language,
\* country, genres in the requested mode, year in range with a parseable
\* year required only when a year bound is set), in input order, nothing
\* added.
C7_FilterExact ==
    fOut # NotApplied =>
        LET f == FiltersOf(req)
            Test(item) == Satisfies(item, f)
        IN  fOut = SelectSeq(fItems, Test)

\* C7 witness: with a rating bound and no year bound, an item rated exactly
\* at the bound and without a parseable year is kept while another item of
\* the list is dropped.
C7_Witness ==
    /\ fOut # NotApplied
    /\ LET f == FiltersOf(req)
       IN  /\ f.MinRating.ok
           /\ ~f.YearFrom.ok
           /\ ~f.YearTo.ok
           /\ Len(fOut) < Len(fItems)
           /\ \E i \in 1..Len(fOut) :
                 /\ fOut[i].VoteAverage = f.MinRating.val
                 /\ ~ParseYear(fOut[i].Year).ok

\* C8: for a non-empty set of requested genre ids, what the filter keeps in
\* AND mode is contained in what it keeps in OR mode; AND keeps an item only
\* if every requested id is among the item's genre ids, OR if at least one is.
C8_AndWithinOr ==
    (fOut # NotApplied /\ Len(FiltersOf(req).GenreIDs) > 0) =>
        LET f      == FiltersOf(req)
            wanted == Range(f.GenreIDs)
            andOut == applySearchFilters(fItems, [f EXCEPT !.GenreMode = "and"])
            orOut  == applySearchFilters(fItems, [f EXCEPT !.GenreMode = "or"])
        IN  /\ Range(andOut) \subseteq Range(orOut)
            /\ fOut = (IF f.GenreMode = "or" THEN orOut ELSE andOut)
            /\ \A item \in Range(andOut) : wanted \subseteq Range(item.GenreIDs)
            /\ \A item \in Range(fItems) :
                  matchesGenres(item.GenreIDs, f.GenreIDs, "or")
                      <=> (wanted \cap Range(item.GenreIDs) # {})

\* C8 witness: two genre ids are requested in AND mode, one item of the list
\* carries both and is kept, another carries only one and is kept in OR mode
\* alone.
C8_Witness ==
    /\ fOut # NotApplied
    /\ LET f     == FiltersOf(req)
           orOut == applySearchFilters(fItems, [f EXCEPT !.GenreMode = "or"])
       IN  /\ Len(f.GenreIDs) = 2
           /\ f.GenreMode = "and"
           /\ Len(fOut) > 0
           /\ Len(orOut) > Len(fOut)

(***************************************************************************)
(* Properties of the search pipeline (SpecSearch)                          *)
(***************************************************************************)

\* the request in req has been answered
Answered == resp # NoResponse

\* the search ran and the handler wrote its result
SearchOK == req.route = "/search" /\ resp.status = StatusOK

\* a page fetch of the current request failed
FailedFetch ==
    \E i \in 1..Len(calls) :
        ~calls[i].ok /\ calls[i].api \in {"search", "discover"}

\* the search pipeline's answer to the current request at application page k
\* with the provider answering every call
PageOf(k) ==
    searchTMDB([cat |-> catalog, query |-> parseSearchRequest(req).Q,
                mediaType |-> "", fault |-> NoFault],
               [FiltersOf(req) EXCEPT !.Page = k], <<>>)

TextSearch == parseSearchRequest(req).Q # ""

AllTypesDiscover ==
    /\ ~TextSearch
    /\ FiltersOf(req).MediaType = "all"
    /\ ~isEmpty(FiltersOf(req))

\* the result lists of application pages 1..n one after another
RECURSIVE PagesUpTo(_)
PagesUpTo(n) ==
    IF n = 0 THEN <<>> ELSE PagesUpTo(n - 1) \o PageOf(n).data.Results

\* C1: for a text search with fixed query, filters and sort (the sorts
\* rating, votes, year and title included) the result lists of application
\* pages 1..total_pages, put one after another, hold every title that
\* passes the filters exactly once: none on two pages, none missing.
C1_PagesPartition ==
    (SearchOK /\ TextSearch) =>
        LET kind     == FiltersOf(req).MediaType
            all      == PagesUpTo(searched.data.TotalPages)
            keyOf(x) == <<x.MediaType, x.ID>>
            filtered == applySearchFilters(
                            fetchSearchResults(Universe(catalog, kind), kind),
                            FiltersOf(req))
        IN  /\ \A i, j \in 1..Len(all) : keyOf(all[i]) = keyOf(all[j]) => i = j
            /\ {keyOf(all[i]) : i \in 1..Len(all)}
                  = {keyOf(filtered[i]) : i \in 1..Len(filtered)}

\* C2: when a page fetch of a search request fails, be it a later page of
\* the accumulation loop or the tv call after a successful movie call, the
\* search returns an error and no items, and the response is an error that
\* carries no results.
C2_FailedFetchNoPartial ==
    (Answered /\ req.route = "/search" /\ FailedFetch) =>
        /\ searched.err
        /\ searched.data.Results = <<>>
        /\ resp.status = StatusBadGateway
        /\ DOMAIN resp.body = {"error"}

\* a second page fetch failed after the first one had brought a full page
C2_Witness ==
    /\ Answered
    /\ req.route = "/search"
    /\ Len(calls) = 2
    /\ calls[1] = ProviderCall("search", "movie", 1, TRUE)
    /\ calls[2] = ProviderCall("search", "movie", 2, FALSE)
    /\ catalog.movie = MaxUniverse
    /\ searched.err

\* C3: whenever the accumulation loop stopped because the provider was
\* exhausted, total_results is the number of accumulated items and
\* total_pages is ceil(total_results / 20), 1 when there are none, whatever
\* page was asked for.
C3_ExhaustedTotals ==
    (SearchOK /\ searched.exhausted) =>
        /\ searched.data.TotalResults = Len(searched.collected)
        /\ searched.data.TotalPages =
              IF searched.data.TotalResults = 0 THEN 1
              ELSE CeilDiv(searched.data.TotalResults, perPage)
        /\ resp.body.total_results = searched.data.TotalResults
        /\ resp.body.total_pages = searched.data.TotalPages

\* C4: every result page of searchTMDB, for a text search, a single-kind
\* discover and an all-types discover alike, holds at most 20 items.
C4_PageSize ==
    SearchOK =>
        /\ Len(searched.data.Results) <= perPage
        /\ Len(resp.body.results) <= perPage

\* what the provider answers to the discover call of one kind for the
\* current request
ProviderAnswer(kind) ==
    LET f == FiltersOf(req)
    IN  ProviderDiscover(catalog, kind,
            DiscoverValues([discoverFiltersOf(f) EXCEPT
                               !.Sort = tmdbSort(f.Sort, kind)],
                           f.Page))

C6_AllTypesRatingOrder ==
    (SearchOK /\ AllTypesDiscover /\ FiltersOf(req).MinRating.ok
        /\ FiltersOf(req).Sort = "rating") =>
        LET out == searched.data.Results
        IN  /\ \A i \in 1..Len(out) :
                  out[i].VoteAverage >= FiltersOf(req).MinRating.val
            /\ \A i, j \in 1..Len(out) :
                  i < j => out[i].VoteAverage >= out[j].VoteAverage

\* the page parameter is a number below 1
PageBelowOne ==
    LET parsed == Atoi(TrimSpace(req.page))
    IN  parsed.ok /\ parsed.val < 1

\* C9: a requested page below 1 is answered as page 1, same items and same
\* totals, and no search result reports a page below 1.
C9_PageClamped ==
    SearchOK =>
        /\ resp.body.page >= 1
        /\ searched.data.Page >= 1
        /\ PageBelowOne => searched.data = PageOf(1).data

(***************************************************************************)
(* Properties of the server (Spec)                                         *)
(***************************************************************************)

\* a provider call of the current request failed
ProviderFailed == \E i \in 1..Len(calls) : ~calls[i].ok

\* C10: every handler that calls the metadata provider answers a failure of
\* the provider with status 502 and with no other status.
C10_ProviderFailureIs502 ==
    (Answered /\ ProviderFailed) => resp.status = StatusBadGateway

(***************************************************************************)
(* Properties of request validation (SpecInput)                            *)
(***************************************************************************)

\* a parameter that is present after trimming but is not what its field takes
MalformedInput ==
    LET pb == parseSearchRequest(req)
    IN  \/ pb.MediaType \notin {"", "movie", "tv"}
        \/ pb.YearFrom # <<>> /\ ~Atoi(pb.YearFrom).ok
        \/ pb.YearTo # <<>> /\ ~Atoi(pb.YearTo).ok
        \/ pb.MinRating # <<>> /\ ~ParseFloat(pb.MinRating).ok
        \/ pb.MinVotes # <<>> /\ ~Atoi(pb.MinVotes).ok

\* C11: a search request whose media_type is present but neither movie nor
\* tv, or whose year_from, year_to, min_rating or min_votes is present but
\* is not a number, is answered with 400 and no provider call is made.
C11_MalformedRejected ==
    (Answered /\ req.route = "/search" /\ MalformedInput) =>
        /\ resp.status = StatusBadRequest
        /\ calls = <<>>

(***************************************************************************)
(* Properties of the sort (SpecSort)                                       *)
(***************************************************************************)

\* the comparator applySearchSort uses for the sort key of the request
CmpOf(a, b) ==
    LET key == FiltersOf(req).Sort
    IN  IF key = "rating" THEN cmpRating(a, b)
        ELSE IF key = "year" THEN cmpYear(a, b)
        ELSE IF key = "title" THEN cmpTitle(a, b)
        ELSE cmpVotes(a, b)

\* the lists that hold the items of list, each once, in some order
Reorderings(list) ==
    {p \in [DOMAIN list -> Range(list)] : Range(p) = Range(list)}

\* C18: under the sort keys rating, votes, year and title any two different
\* items are strictly ordered by the comparator, and the sorted order of a
\* list is the same for every order its items are supplied in.
C18_SortTotalOrder ==
    (fOut # NotApplied /\ FiltersOf(req).Sort # "relevance") =>
        /\ \A i, j \in 1..Len(fItems) :
              i # j => CmpOf(fItems[i], fItems[j]) # 0
        /\ \A p \in Reorderings(fItems) :
              applySearchSort(p, FiltersOf(req).Sort, FALSE) = fOut

\* C19: sorting a list that applySearchSort has sorted, with the same key,
\* returns it in the same order.
C19_SortIdempotent ==
    fOut # NotApplied =>
        applySearchSort(fOut, FiltersOf(req).Sort, FALSE) = fOut

\* C19 witness: the sort moved items of a list in which two items tie under
\* the key's comparator, and sorting the result again changes nothing.
C19_Witness ==
    /\ fOut # NotApplied
    /\ fOut # fItems
    /\ Len(fItems) = MaxItems
    /\ FiltersOf(req).Sort = "title"
    /\ \E i, j \in 1..Len(fOut) : i # j /\ CmpOf(fOut[i], fOut[j]) = 0
    /\ applySearchSort(fOut, "title", FALSE) = fOut

(***************************************************************************)
(* Properties of the accumulation loop (SpecSearch)                        *)
(***************************************************************************)

\* the page fetches of the current request, in the order they were made
SearchCalls == SelectSeq(calls, LAMBDA c : c.api = "search")

\* what the provider holds at page j for the request's media kind
ProviderPageAt(j) == ProviderSearch(catalog, FiltersOf(req).MediaType, j)

\* the results of provider page j that pass the request's filters
Survivors(j) ==
    applySearchFilters(
        fetchSearchResults(ProviderPageAt(j).results, FiltersOf(req).MediaType),
        FiltersOf(req))

\* the survivors of provider pages 1..n one after another
RECURSIVE Accumulated(_)
Accumulated(n) ==
    IF n = 0 THEN <<>> ELSE Accumulated(n - 1) \o Survivors(n)

\* after provider page j the accumulator covers the requested application
\* page, or j is the provider's last page
LoopEndsAt(j) ==
    \/ Len(Accumulated(j)) >= (FiltersOf(req).Page - 1) * perPage + perPage
    \/ j >= ProviderPageAt(j).total_pages

\* C20: with filters or a non-default sort active, searchWithFilterPaging
\* fetches provider pages 1, 2, 3, ... in this order, each once and none
\* again after a failure, appends each page's filter survivors to the
\* accumulator, goes on while neither the accumulator covers the requested
\* page nor the provider's last page is reached, and fetches nothing after.
C20_PagingLoop ==
    (Answered /\ req.route = "/search" /\ TextSearch
        /\ resp.status # StatusBadRequest
        /\ (~isEmpty(FiltersOf(req)) \/ FiltersOf(req).Sort # "relevance")) =>
        LET k == Len(SearchCalls)
        IN  /\ k >= 1
            /\ SubSeq(calls, 1, k) = SearchCalls
            /\ \A i \in 1..k :
                  /\ SearchCalls[i].page = i
                  /\ SearchCalls[i].kind = FiltersOf(req).MediaType
            /\ \A i \in 1..(k - 1) : SearchCalls[i].ok /\ ~LoopEndsAt(i)
            /\ SearchCalls[k].ok =>
                  /\ LoopEndsAt(k)
                  /\ Len(searched.collected) = Len(Accumulated(k))
                  /\ Range(searched.collected) = Range(Accumulated(k))
                  /\ FiltersOf(req).Sort = "relevance" =>
                        searched.collected = Accumulated(k)

\* C20 witness: the first provider page left fewer survivors than a page
\* needs, the second and last page was fetched after it, and no third.
C20_Witness ==
    /\ SearchOK
    /\ TextSearch
    /\ FiltersOf(req).MinRating.ok
    /\ FiltersOf(req).Page = 1
    /\ Len(SearchCalls) = 2
    /\ Len(Survivors(1)) < perPage
    /\ Len(Survivors(2)) > 0
    /\ ProviderPageAt(2).total_pages = 2
    /\ searched.exhausted

\* whether the library holds a show with this tmdb id and media kind
Holds(lib, tmdbID, mediaType) ==
    \E row \in lib.shows : row.TMDBID = tmdbID /\ row.MediaType = mediaType

\* C15: every item of a search response has in_library = true exactly
\* when the library, as the request's lookup found it, holds a show with
\* the item's tmdb id and media kind.
C15_InLibraryIff ==
    (Answered /\ req.route = "/search" /\ resp.status = StatusOK) =>
        \A i \in 1..Len(resp.body.results) :
            resp.body.results[i].InLibrary
                <=> Holds(library, resp.body.results[i].Id,
                          resp.body.results[i].MediaType)

\* a page of movies with movie 1, which is in the library, and movie 2,
\* which is not although the tv show 2 is
C15_Witness ==
    /\ Answered
    /\ req.route = "/search"
    /\ resp.status = StatusOK
    /\ Holds(library, 2, "tv")
    /\ \E i, j \in 1..Len(resp.body.results) :
          /\ resp.body.results[i].Id = 1
          /\ resp.body.results[i].MediaType = "movie"
          /\ resp.body.results[i].InLibrary
          /\ resp.body.results[j].Id = 2
          /\ resp.body.results[j].MediaType = "movie"
          /\ ~resp.body.results[j].InLibrary

\* the route that serves a reference list
ListRoutes == [genres |-> "/search/genres", countries |-> "/search/countries",
               languages |-> "/search/languages"]

\* the provider calls the request made for list n
RefreshCalls(n) == SelectSeq(calls, LAMBDA c : c.api = ListApis[n])

\* the cache of n holds a list
HasList(n) ==
    CASE n = "genres" -> genres.movieList.ok /\ genres.tvList.ok
      [] n = "countries" -> countries.items.ok
      [] n = "languages" -> languages.items.ok

\* the response carries the list the cache of n holds
ServedFromCache(n) ==
    /\ resp.status = StatusOK
    /\ CASE n = "genres" ->
               /\ resp.body.movie_genres = genres.movieList.val
               /\ resp.body.tv_genres = genres.tvList.val
          [] n = "countries" -> resp.body.list = countries.items.val
          [] n = "languages" -> resp.body.list = languages.items.val

\* C12: a request during which a refresh of the genre, country or language
\* cache failed is answered with an error, the search request that
\* refreshes the genre cache for the genre names included.
C12_RefreshFailureSurfaced ==
    (/\ Answered
     /\ \E n \in DOMAIN ListApis, i \in 1..Len(calls) :
           calls[i].api = ListApis[n] /\ ~calls[i].ok)
        => resp.status >= StatusBadRequest

\* C13: once a list has been cached and a later refresh of it has failed, a
\* request for the list that comes after the failed one is answered 200
\* with the cached list, unless its own refresh attempt succeeds and it is
\* answered with the new one.
C13_StaleServedAfterFailure ==
    \A n \in DOMAIN ListApis :
        (/\ Answered
         /\ req.route = ListRoutes[n]
         /\ refreshed[n].okAt.ok
         /\ refreshed[n].failed
         /\ HasList(n))
            => ServedFromCache(n)

\* C14: a request for a list whose last refresh succeeded less than 24
\* hours before makes no provider call for it, whatever list the provider
\* had returned; one that comes 24 hours after it or later makes one.
C14_FreshForTTL ==
    \A n \in DOMAIN ListApis :
        (/\ Answered
         /\ req.route = ListRoutes[n]
         /\ refreshed[n].okAt.ok)
            => IF now - refreshed[n].okAt.val < cacheTTL
               THEN RefreshCalls(n) = <<>> /\ resp.status = StatusOK
               ELSE RefreshCalls(n) # <<>>

(***************************************************************************)
(* Properties of the password gate and of the ratings (SpecLibrary)        *)
(***************************************************************************)

\* the request carries the SHA-256 hex digest of the password as its cookie
CarriesDigest ==
    /\ req.cookie.ok
    /\ req.cookie.val = SHA256Hex[Password]

\* the response sets the auth cookie to the digest of the password
IssuesCookie ==
    /\ "cookie" \in DOMAIN resp
    /\ resp.cookie = SHA256Hex[Password]

\* C16: a request to any route but GET /session and POST /login that does
\* not carry the digest of the password as its cookie is answered 401, with
\* no statement run on the library and no provider call made; and a
\* response sets the cookie to that digest only when it answers a POST
\* /login whose password is the configured one.
C16_PasswordGate ==
    Answered =>
        /\ (/\ <<req.method, req.route>>
                   \notin {<<"GET", "/session">>, <<"POST", "/login">>}
            /\ ~CarriesDigest)
               => (/\ resp.status = StatusUnauthorized
                   /\ stmts = <<>>
                   /\ calls = <<>>
                   /\ inserted = {})
        /\ IssuesCookie
               => (/\ req.method = "POST"
                   /\ req.route = "/login"
                   /\ req.body.ok
                   /\ req.body.val.password = Password)

\* a delete request carrying the password itself as its cookie was turned
\* away, and the show it names is still there
C16_Witness ==
    /\ Answered
    /\ req.method = "DELETE"
    /\ req.route = "/shows/{id}"
    /\ req.cookie = Some(Password)
    /\ resp.status = StatusUnauthorized
    /\ RowsByID(library, req.id) # {}

\* a rating as the table may hold it: NULL or a number from 1 to 10
RatingInRange(rating) == ~rating.ok \/ rating.val \in 1..10

\* a submitted rating brought into 1..10
Clamped(n) == IF n < 1 THEN 1 ELSE IF n > 10 THEN 10 ELSE n

\* the request is a ratings request that was carried out
Rated ==
    /\ Answered
    /\ req.method = "POST"
    /\ req.route = "/shows/{id}/ratings"
    /\ resp.status = StatusOK

\* C17: whatever requests the library has gone through, every show's
\* bf_rating and gf_rating is NULL or in 1..10; after a ratings request the
\* show holds each submitted rating clamped into 1..10; and a show that was
\* just inserted has both ratings NULL.
C17_RatingsInRange ==
    /\ \A s \in library.shows :
          /\ RatingInRange(s.BfRating)
          /\ RatingInRange(s.GfRating)
          /\ s.ID \in inserted => (~s.BfRating.ok /\ ~s.GfRating.ok)
    /\ Rated =>
          \A s \in RowsByID(library, req.id) :
              /\ req.body.val.bf_rating.ok
                    => s.BfRating = Some(Clamped(req.body.val.bf_rating.val))
              /\ req.body.val.gf_rating.ok
                    => s.GfRating = Some(Clamped(req.body.val.gf_rating.val))

\* a rating of 11 was submitted for a show and the show holds 10
C17_Witness ==
    /\ Rated
    /\ req.body.val.bf_rating = Some(11)
    /\ \E s \in RowsByID(library, req.id) : s.BfRating = Some(10)

(***************************************************************************)
(* Properties of the direct page mapping and of the windowing (SpecSearch) *)
(***************************************************************************)

\* the request narrows the search by no attribute: no year, rating, vote,
\* genre, country or language filter
NoAttributeFilter(f) ==
    /\ ~f.YearFrom.ok /\ ~f.YearTo.ok
    /\ ~f.MinRating.ok /\ ~f.MinVotes.ok
    /\ f.GenreIDs = <<>>
    /\ f.OriginCountry = <<>>
    /\ f.OriginalLanguage = <<>>

\* C21: a text search in the default relevance order and without attribute
\* filters that is answered for application page p has made exactly one
\* provider fetch, of provider page ((p-1)*20) / 20 + 1, and returns the
\* items at positions ((p-1)*20) % 20 and the 19 after it of that page.
C21_DirectPageMapping ==
    (/\ Answered /\ SearchOK /\ TextSearch
     /\ FiltersOf(req).Sort = "relevance"
     /\ NoAttributeFilter(FiltersOf(req))) =>
        LET p      == FiltersOf(req).Page
            offset == (p - 1) * perPage
            at     == offset % tmdbPageSize
            page   == fetchSearchResults(
                          ProviderPageAt(offset \div tmdbPageSize + 1).results,
                          FiltersOf(req).MediaType)
        IN  /\ Len(SearchCalls) = 1
            /\ SearchCalls[1].page = offset \div tmdbPageSize + 1
            /\ searched.data.Results
                  = SubSeq(page, at + 1, Min(at + perPage, Len(page)))

\* the accumulator of the answered search: the filter survivors of every
\* fetched provider page, sorted as a whole for a non-default sort
SortedAccumulator ==
    LET acc == Accumulated(Len(SearchCalls))
    IN  IF FiltersOf(req).Sort # "relevance"
        THEN SubSeq(applySearchSort(acc, FiltersOf(req).Sort, FALSE),
                    1, Len(acc))
        ELSE acc

\* the positions offset .. min(offset + 20, n) - 1 of items (counted from 0)
WindowAt(items, offset) ==
    IF offset >= Len(items) THEN <<>>
    ELSE [i \in 1..(Min(offset + perPage, Len(items)) - offset)
             |-> items[offset + i]]

\* C22: an answered text search returns the positions offset up to
\* min(offset + 20, n) of the accumulator that was first filtered page by
\* page and then, for a non-default sort, sorted as a whole; behind the
\* accumulator the result is empty, and paginateSearchResults returns an
\* in-range window for every offset, a negative one counting as 0.
C22_FilterSortWindow ==
    /\ (Answered /\ SearchOK /\ TextSearch) =>
          LET offset == (FiltersOf(req).Page - 1) * perPage
              got    == searched.data.Results
              want   == WindowAt(SortedAccumulator, offset)
          IN  /\ Len(searched.collected) = Len(SortedAccumulator)
              /\ Len(got) = Len(want)
              /\ \A i \in 1..Len(want) : got[i] = want[i]
              /\ offset >= Len(SortedAccumulator) => got = <<>>
    /\ fOut.applied =>
          LET items == searched.collected
              want  == WindowAt(items, Max(fOut.offset, 0))
          IN  /\ Len(fOut.items) = Len(want)
              /\ \A i \in 1..Len(want) : fOut.items[i] = want[i]
              /\ fOut.offset >= Len(items) => fOut.items = <<>>

\* C22 witness: page 2 of a text search sorted by rating whose accumulator
\* holds more than one page and is reordered by the sort, then windowed
\* again at a negative offset.
C22_Witness ==
    /\ SearchOK /\ TextSearch
    /\ FiltersOf(req).Sort = "rating"
    /\ FiltersOf(req).Page = 2
    /\ Len(searched.collected) > perPage
    /\ searched.collected # Accumulated(Len(SearchCalls))
    /\ searched.data.Results # <<>>
    /\ fOut.applied
    /\ fOut.offset < 0
    /\ fOut.items # <<>>


(***************************************************************************)
(* Properties of the caches under concurrent requests (SpecCache)            *)
(***************************************************************************)

\* the provider call a refresh of cache c starts with
FirstFetch(c, call) ==
    IF c = "genres" THEN call.api = "genre" /\ call.kind = "movie"
    ELSE call.api = c

\* goroutine g has missed cache c and its first provider call was answered
HasFetched(g, c) ==
    /\ CacheName(goroutines[g].op) = c
    /\ ~goroutines[g].hit
    /\ goroutines[g].pc \notin {"RLock", "check", "miss", "mRLock", "mCheck",
                                "mMiss", "fetchingMovie", "fetching"}

\* goroutine g holds cache c exclusively, or waits for it with its lists
Refreshing(g, c) ==
    /\ CacheName(goroutines[g].op) = c
    /\ goroutines[g].pc \in {"Lock", "storeMovieList", "storeTvList",
                             "storeMovie", "storeTv", "storeItems",
                             "storeFetchedAt", "Unlock"}

\* both goroutines found their cache absent or expired
BothMissed ==
    \A g \in Goroutines :
        /\ ~goroutines[g].hit
        /\ goroutines[g].pc \in {"miss", "fetchingMovie", "fetching"}

AllDone == \A g \in Goroutines : goroutines[g].pc = "done"

\* every refresh fetches for itself, and a cache nobody is assigning holds
\* in every field what the last goroutine to lock it exclusively stored
LastLockerWins ==
    \A c \in DOMAIN mu :
        /\ Len(SelectSeq(calls, LAMBDA call : FirstFetch(c, call)))
              = Cardinality({g \in Goroutines : HasFetched(g, c)})
        /\ (mu[c].last # "" /\ ~\E g \in Goroutines : Refreshing(g, c)) =>
              LET last == goroutines[mu[c].last]
              IN  /\ \A f \in DOMAIN stored[c] : stored[c][f] = mu[c].last
                  /\ c # "genres" =>
                        ListCache(c).items = CopySlice(last.items.val)
                  /\ c = "genres" =>
                        /\ genres.movieList = CopySlice(last.movie.val)
                        /\ genres.tvList = CopySlice(last.tv.val)
                        /\ genres.movie = Some(GenreMap(last.movie.val))
                        /\ genres.tv = Some(GenreMap(last.tv.val))

\* C23: refreshes of a reference-list cache are not deduplicated: each of
\* two requests that found the cache absent or expired makes its own
\* provider fetch, both requests complete, and the cache then holds what
\* the request that took the exclusive lock last has stored.
C23_ConcurrentRefreshes ==
    /\ []LastLockerWins
    /\ BothMissed ~> AllDone

\* C23 witness: two requests missed the country cache together, each
\* fetched a list of its own, different from the other's, and both are done.
C23_Witness ==
    /\ AllDone
    /\ \A g \in Goroutines :
          goroutines[g].op = "fetchCountryList" /\ HasFetched(g, "countries")
    /\ Len(SelectSeq(calls, LAMBDA call : call.api = "countries" /\ call.ok)) = 2
    /\ goroutines["g1"].items # goroutines["g2"].items
    /\ mu.countries.last = "g1"
    /\ countries.items = CopySlice(goroutines["g1"].items.val)

\* goroutine g holds the read lock of its cache and reads it
Reading(g) ==
    goroutines[g].pc \in {"check", "copyMovie", "copyTv", "RUnlock", "miss",
                          "mCheck", "mMovie", "mTv", "mRUnlock", "mMiss",
                          "rMovie", "rTv", "rRUnlock", "copy"}

\* goroutine g has sent its request to the provider and waits for the answer
FetchInFlight(g) ==
    goroutines[g].pc \in {"fetchingMovie", "fetchingTv", "fetching"}

\* C24: a reader holds the shared lock while it reads; a refresh holds the
\* exclusive lock while its provider fetch is in flight, so that no reader
\* reads the cache during the fetch.
C24_FetchUnderExclusiveLock ==
    \A g \in Goroutines :
        LET c == CacheName(goroutines[g].op)
        IN  /\ Reading(g) => g \in mu[c].r
            /\ FetchInFlight(g) =>
                  /\ mu[c].w = g
                  /\ ~\E h \in Goroutines \ {g} :
                        CacheName(goroutines[h].op) = c /\ Reading(h)

\* C30: what a goroutine reads of the genre cache between taking the read
\* lock and giving it back - movie list, tv list, movie map, tv map and
\* fetch timestamp - was all assigned by one and the same refresh.
C30_NoPartialUpdate ==
    \A g \in Goroutines :
        \A f1, f2 \in {"movieList", "tvList", "movie", "tv", "fetchedAt"} :
            LET seen == goroutines[g].seen
            IN  (seen[f1] # "" /\ seen[f2] # "") => seen[f1] = seen[f2]

\* C30 witness: genreMaps refreshed the cache itself, another refresh
\* assigned the cache after it, and under its second read lock genreMaps
\* read both maps as that other refresh left them.
C30_Witness ==
    /\ goroutines["g2"].op = "genreMaps"
    /\ goroutines["g2"].pc = "rRUnlock"
    /\ HasFetched("g2", "genres")
    /\ goroutines["g2"].tv.ok
    /\ goroutines["g2"].seen.movie = "g1"
    /\ goroutines["g2"].seen.tv = "g1"
    /\ goroutines["g2"].movieMap = genres.movie
    /\ goroutines["g2"].tvMap = genres.tv

(***************************************************************************)
(* Properties of the shows table under add and refresh (SpecUpsert)        *)
(***************************************************************************)

SamePair(s, t) == s.TMDBID = t.TMDBID /\ s.MediaType = t.MediaType

\* no two rows with one (tmdb_id, media_type)
UniquePairs ==
    \A s, t \in library.shows : SamePair(s, t) => s = t

\* the handler of an add-show or per-show refresh request has just run
UpsertHandled ==
    /\ <<req.method, req.route>>
          \in {<<"POST", "/shows">>, <<"POST", "/shows/{id}/refresh-tmdb">>}
    /\ resp = NoResponse
    /\ resp' # NoResponse

\* every row the library held is still there with its id, ratings, comments
\* and created_at
RowsKept ==
    \A old \in library.shows :
        \E new \in library'.shows :
            /\ SamePair(old, new)
            /\ new.ID = old.ID
            /\ new.BfRating = old.BfRating
            /\ new.GfRating = old.GfRating
            /\ new.BfComment = old.BfComment
            /\ new.GfComment = old.GfComment
            /\ new.CreatedAt = old.CreatedAt

\* C25: the library never holds two shows with one (tmdb_id, media_type);
\* adding or refreshing a show whose pair is in the library updates that row
\* in place: id, bf_rating, gf_rating, bf_comment, gf_comment and created_at
\* stay, only provider metadata, status and updated_at change.
C25_UpsertInPlace ==
    /\ []UniquePairs
    /\ [][UpsertHandled => RowsKept]_vars

\* C25 witness: a rated show was added again at a later hour: no row was
\* inserted, the row kept its ratings and its created_at, and its
\* updated_at moved.
C25_Witness ==
    /\ Answered
    /\ <<req.method, req.route>> = <<"POST", "/shows">>
    /\ resp.status = StatusOK
    /\ inserted = {}
    /\ \E s \in library.shows :
          /\ s.TMDBID = req.body.val.tmdb_id
          /\ s.MediaType = MediaTypeOf(TrimSpace(req.body.val.media_type))
          /\ s.GfRating.ok
          /\ s.UpdatedAt = now
          /\ s.CreatedAt < now

\* C26: the show detail an add-show request is answered with is that of the
\* show added: UpsertShow has returned the id of the row with the request's
\* (tmdb_id, media_type), on the insert path and on the update path.
C26_AddReturnsAddedShow ==
    (/\ Answered
     /\ <<req.method, req.route>> = <<"POST", "/shows">>
     /\ resp.status = StatusOK) =>
        /\ resp.body.show.TmdbId = req.body.val.tmdb_id
        /\ resp.body.show.MediaType
              = MediaTypeOf(TrimSpace(req.body.val.media_type))
        /\ \E s \in library.shows :
              /\ s.ID = resp.body.show.Id
              /\ s.TMDBID = req.body.val.tmdb_id
              /\ s.MediaType = MediaTypeOf(TrimSpace(req.body.val.media_type))

\* the requests that change or refresh one show
ChangeRoutes ==
    {<<"DELETE", "/shows/{id}">>, <<"POST", "/shows/{id}/ratings">>,
     <<"POST", "/shows/{id}/toggle-status">>,
     <<"POST", "/shows/{id}/clear-ratings">>,
     <<"POST", "/shows/{id}/refresh-tmdb">>}

\* the rate request carries a rating or a comment
CarriesField ==
    /\ req.body.ok
    /\ \/ req.body.val.bf_rating.ok
       \/ req.body.val.gf_rating.ok
       \/ req.body.val.bf_comment.ok
       \/ req.body.val.gf_comment.ok

\* the handler of an authenticated request on one show has just run, and
\* the database failed none of its statements
ShowHandled(routes) ==
    /\ <<req.method, req.route>> \in routes
    /\ isAuthenticated(req)
    /\ resp = NoResponse
    /\ resp' # NoResponse
    /\ \A i \in 1..Len(stmts') : stmts'[i].ok

\* the id of the request names no show of the library
NamesNoShow == RowsByID(library, req.id) = {}

\* the id of the request was handed out to a show that has been deleted
WasDeleted == req.id \in 1..library.seq /\ NamesNoShow

\* answered 404 with the library as it was
NotFoundUntouched ==
    /\ resp'.status = StatusNotFound
    /\ library'.shows = library.shows

\* for a rate request, the body decodes
Decodes == req.route = "/shows/{id}/ratings" => req.body.ok

\* C27: a rate request with a field, a toggle-status, a clear-ratings, a
\* per-show refresh or a delete request whose id names no show is answered
\* 404 and leaves every row unchanged; after a successful delete of a show,
\* every further request on its id is answered 404.
C27_DeletedAlways404 ==
    [][/\ (/\ ShowHandled(ChangeRoutes)
           /\ NamesNoShow
           /\ req.route = "/shows/{id}/ratings" => CarriesField)
          => NotFoundUntouched
       /\ (/\ ShowHandled(ChangeRoutes \cup {<<"GET", "/shows/{id}">>})
           /\ WasDeleted
           /\ Decodes)
          => resp'.status = StatusNotFound]_vars

\* the part of C27 that holds: requests whose id names no show, and after a
\* delete every get and every such request on the id, are answered 404 with
\* the library as it was, a rate request when it carries a field.
UnknownShowNotFound ==
    [][/\ (/\ ShowHandled(ChangeRoutes)
           /\ NamesNoShow
           /\ req.route = "/shows/{id}/ratings" => CarriesField)
          => NotFoundUntouched
       /\ (/\ ShowHandled(ChangeRoutes \cup {<<"GET", "/shows/{id}">>})
           /\ WasDeleted
           /\ req.route = "/shows/{id}/ratings" => CarriesField)
          => NotFoundUntouched]_vars

\* a rate request with a rating on the id of a deleted show ran its UPDATE
\* and was answered 404
DeletedRated404 ==
    /\ Answered
    /\ <<req.method, req.route>> = <<"POST", "/shows/{id}/ratings">>
    /\ isAuthenticated(req)
    /\ CarriesField
    /\ WasDeleted
    /\ stmts # <<>>
    /\ \A i \in 1..Len(stmts) : stmts[i].ok
    /\ resp.status = StatusNotFound

\* the status of the show id in the library lib
StatusOf(lib, id) == (CHOOSE s \in RowsByID(lib, id) : TRUE).Status

\* two toggle-status requests on one show have both been answered 200
TwoToggled ==
    /\ \A g \in DOMAIN goroutines :
          goroutines[g].pc = "done" /\ goroutines[g].code = StatusOK
    /\ \A g, h \in DOMAIN goroutines : goroutines[g].id = goroutines[h].id

\* C28: each successful toggle-status request flips the status once: after
\* two toggle requests on one show have both completed, in every
\* interleaving of their store reads and writes, the status is the status
\* before the two requests.
C28_TwoTogglesRestore ==
    TwoToggled =>
        \A g \in DOMAIN goroutines :
            StatusOf(library, goroutines[g].id)
                = StatusOf(Library0, goroutines[g].id)

\* the search request has returned
SearchReturned == \A g \in DOMAIN goroutines : goroutines[g].pc = "done"

\* the provider fetches of the search pages
PageFetches(g) == goroutines[g].fetches

\* the provider fetches of the genre lists
GenreFetches == Len(SelectSeq(calls, LAMBDA c : c.api = "genre"))

\* C29: a single search request always terminates and performs at most 500
\* provider fetches, for every requested page and every sequence of
\* total_pages values the provider reports.
C29_AtMost500Fetches ==
    /\ [](\A g \in DOMAIN goroutines :
             PageFetches(g) + GenreFetches <= maxTotalPages)
    /\ <>SearchReturned

\* C29 amended: the request terminates, fetches at most 500 search pages,
\* provider page numbers rising by one from 1 up to the capped total, and
\* at most two genre lists after them.
C29_AtMost500PageFetches ==
    /\ [](\A g \in DOMAIN goroutines :
             /\ PageFetches(g) <= maxTotalPages
             /\ GenreFetches <= 2
             /\ goroutines[g].pc = "loop" =>
                   /\ goroutines[g].tmdbPage = PageFetches(g) + 1
                   /\ goroutines[g].tmdbPage <= maxTotalPages)
    /\ <>SearchReturned

\* C29 witness: the request has returned after 500 page fetches, the last
\* of them of provider page 500.
C29_Witness ==
    /\ SearchReturned
    /\ \E g \in DOMAIN goroutines :
          /\ PageFetches(g) = maxTotalPages
          /\ goroutines[g].tmdbPage = maxTotalPages
          /\ ~goroutines[g].err

====
